---- MODULE Spec2Model ----
(***************************************************************************)
(* playcheck: the concurrent scan orchestrator (internal/preflight), the   *)
(* tolerant manifest parser (internal/manifest) and the checkers that      *)
(* plug into the orchestrator, as state machines.                          *)
(*                                                                         *)
(* Strings are sequences of byte values, so that Go's string comparison    *)
(* (bytewise lexicographic) and fmt.Sprintf are computed, not assumed.     *)
(***************************************************************************)
EXTENDS Integers, Sequences, FiniteSets, TLC

\* ------------------------------------------------------------------------
\* Bounds of the model
\* ------------------------------------------------------------------------
\* Largest number of checkers registered with one Runner.
MaxCheckers == 2

\* Largest number of start tokens in one document handed to Parse.
MaxStartTokens == 3

\* Largest line number a token of the document can be on.
MaxLine == 2

\* Largest target version of a model handed to the Validator.
MaxTargetSdkVersion == 36

\* Largest number of declared permissions of a model handed to the Validator.
MaxPermissions == 2

\* Largest number of components of a model handed to the Validator.
MaxComponents == 2

\* Largest number of bytes of a content whose offsets are turned into lines.
MaxContent == 4

\* Largest number of source files of a project handed to the code scanner.
MaxFiles == 9

\* Largest number of findings of a list handed to deduplicateFindings, and
\* of the lists a scan result's findings are made of.
MaxFindings == 3

\* ------------------------------------------------------------------------
\* Strings as byte sequences
\* ------------------------------------------------------------------------
ChColon == 58
ChZero == 48

\* Go's < on strings: bytewise lexicographic, a proper prefix is smaller.
RECURSIVE StrLess(_, _)
StrLess(a, b) ==
    IF b = <<>> THEN FALSE
    ELSE IF a = <<>> THEN TRUE
    ELSE IF Head(a) # Head(b) THEN Head(a) < Head(b)
    ELSE StrLess(Tail(a), Tail(b))

\* fmt's %d for a non-negative int: decimal digits, most significant first.
RECURSIVE Itoa(_)
Itoa(n) ==
    IF n < 10 THEN <<ChZero + n>>
    ELSE Itoa(n \div 10) \o <<ChZero + (n % 10)>>

\* ------------------------------------------------------------------------
\* preflight/types.go
\* ------------------------------------------------------------------------
SeverityInfo == 0
SeverityWarning == 1
SeverityError == 2
SeverityCritical == 3

\* Location.String(): "file:line:col", "file:line" or "file".
LocationString(l) ==
    IF l.Line > 0
    THEN IF l.Col > 0
         THEN l.File \o <<ChColon>> \o Itoa(l.Line) \o <<ChColon>> \o Itoa(l.Col)
         ELSE l.File \o <<ChColon>> \o Itoa(l.Line)
    ELSE l.File

\* A Finding.  Title stands for the three text fields the orchestrator
\* carries along without reading them (Title, Description, Suggestion).
Finding(id, title, sev, file, line, col) ==
    [CheckID |-> id, Title |-> title, Severity |-> sev,
     Location |-> [File |-> file, Line |-> line, Col |-> col]]

\* A deduplication key that compares the Location structs instead of their
\* strings.
FindingKeyByLocation(f) == <<f.CheckID, f.Location>>

\* The key deduplicateFindings compares findings by.
FindingKey(f) == <<f.CheckID, LocationString(f.Location)>>

\* ------------------------------------------------------------------------
\* preflight: deduplicateFindings and the sort of Runner.Run
\* ------------------------------------------------------------------------
\* The loop of deduplicateFindings: seen is the key set, out the kept list.
\* The loop with a kept finding put in front of out instead of at its end.
RECURSIVE DedupLoopPrepend(_, _, _)
DedupLoopPrepend(findings, seen, out) ==
    IF findings = <<>> THEN out
    ELSE LET f == Head(findings)
             k == FindingKey(f)
         IN  IF k \in seen
             THEN DedupLoopPrepend(Tail(findings), seen, out)
             ELSE DedupLoopPrepend(Tail(findings), seen \cup {k}, <<f>> \o out)

RECURSIVE DedupLoop(_, _, _)
DedupLoop(findings, seen, out) ==
    IF findings = <<>> THEN out
    ELSE LET f == Head(findings)
             k == FindingKey(f)
         IN  IF k \in seen
             THEN DedupLoop(Tail(findings), seen, out)
             ELSE DedupLoop(Tail(findings), seen \cup {k}, Append(out, f))

\* A deduplication that keeps the last finding of a key, not the first.
RECURSIVE deduplicateFindingsKeepsLast(_)
deduplicateFindingsKeepsLast(findings) ==
    IF Len(findings) = 0 THEN findings
    ELSE IF \E j \in 2..Len(findings) :
                FindingKey(findings[j]) = FindingKey(Head(findings))
         THEN deduplicateFindingsKeepsLast(Tail(findings))
         ELSE <<Head(findings)>> \o deduplicateFindingsKeepsLast(Tail(findings))

deduplicateFindings(findings) ==
    IF Len(findings) = 0 THEN findings
    ELSE DedupLoop(findings, {}, <<>>)

\* A []Finding value: nil, or a slice of the elements elems.
NilSlice == [isNil |-> TRUE, elems |-> <<>>]
SliceOf(elems) == [isNil |-> FALSE, elems |-> elems]

\* deduplicateFindings on a slice value: a slice of length 0 is handed
\* back as it is (nil stays nil), any other is copied into a slice made
\* anew.
deduplicateFindingsOf(s) ==
    IF Len(s.elems) = 0 THEN s
    ELSE SliceOf(deduplicateFindings(s.elems))

\* A less function that orders the severities ascending.
FindingLessAscending(a, b) ==
    IF a.Severity # b.Severity THEN a.Severity < b.Severity
    ELSE IF a.CheckID # b.CheckID THEN StrLess(a.CheckID, b.CheckID)
    ELSE StrLess(LocationString(a.Location), LocationString(b.Location))

\* The less function handed to sort.Slice.
FindingLess(a, b) ==
    IF a.Severity # b.Severity THEN a.Severity > b.Severity
    ELSE IF a.CheckID # b.CheckID THEN StrLess(a.CheckID, b.CheckID)
    ELSE StrLess(LocationString(a.Location), LocationString(b.Location))

\* sort.Slice is not stable, but it is only ever applied to the output of
\* deduplicateFindings, where no two elements share (CheckID, Location
\* string), so FindingLess orders every pair and the sorted list is unique.
\* SortFindings computes it by insertion.
RECURSIVE InsertFinding(_, _)
InsertFinding(f, sorted) ==
    IF sorted = <<>> THEN <<f>>
    ELSE IF FindingLess(f, Head(sorted)) THEN <<f>> \o sorted
    ELSE <<Head(sorted)>> \o InsertFinding(f, Tail(sorted))

RECURSIVE SortFindings(_)
SortFindings(findings) ==
    IF findings = <<>> THEN <<>>
    ELSE InsertFinding(Head(findings), SortFindings(Tail(findings)))

\* ------------------------------------------------------------------------
\* Checkers: what Checker.Run can hand back to the orchestrator
\* ------------------------------------------------------------------------
\* The pair (cr, err) returned by Checker.Run: nilcr says cr == nil,
\* Passed/Findings/Err are cr's fields (Err: cr.Err already set by the
\* checker), err says the error result is non-nil.
Outcome(nilcr, passed, findings, crErr, err) ==
    [nilcr |-> nilcr, Passed |-> passed, Findings |-> findings,
     Err |-> crErr, err |-> err]

\* mockScanner.Run of the runner tests, and codescan's Scanner.Run: an error
\* gives (nil, err), otherwise Passed says that there are no findings.
mockScannerRun(findings, fails) ==
    IF fails THEN Outcome(TRUE, FALSE, <<>>, FALSE, TRUE)
    ELSE Outcome(FALSE, Len(findings) = 0, findings, FALSE, FALSE)

codescanRun(findings, walkFails) ==
    IF walkFails THEN Outcome(TRUE, FALSE, <<>>, FALSE, TRUE)
    ELSE Outcome(FALSE, Len(findings) = 0, findings, FALSE, FALSE)

\* A ManifestScanner.Run that reports its findings whether or not the
\* document could be found and parsed.
ManifestScannerRunIgnoresError(findings, notFound) ==
    Outcome(FALSE, Len(findings) = 0, findings, FALSE, FALSE)

\* ManifestScanner.Run: document not found or unparsable gives a result
\* with Err set together with the error.
ManifestScannerRun(findings, notFound) ==
    IF notFound THEN Outcome(FALSE, FALSE, <<>>, TRUE, TRUE)
    ELSE Outcome(FALSE, Len(findings) = 0, findings, FALSE, FALSE)

\* datasafety Checker.Run: a walk error is stored in result.Err and the
\* result, still Passed, is returned with a nil error; otherwise Passed is
\* cleared by a finding of severity Error or above.
datasafetyRun(findings, walkFails) ==
    IF walkFails THEN Outcome(FALSE, TRUE, <<>>, TRUE, FALSE)
    ELSE Outcome(FALSE,
                 \A i \in 1..Len(findings) : findings[i].Severity < SeverityError,
                 findings, FALSE, FALSE)

\* Findings the modelled checkers report.  fDup1 and fDup2 share CheckID and
\* position and differ in text and severity; fAlias has another Location
\* with the same Location.String() as fDup1.
fDup1 == Finding(<<68>>, 1, SeverityWarning, <<65>>, 1, 0)
fDup2 == Finding(<<68>>, 2, SeverityCritical, <<65>>, 1, 0)
fAlias == Finding(<<68>>, 1, SeverityWarning, <<65, 58, 49>>, 0, 0)
fCrit == Finding(<<65>>, 1, SeverityCritical, <<65>>, 2, 0)
fErr == Finding(<<67>>, 1, SeverityError, <<65>>, 1, 2)
fLine2 == Finding(<<68>>, 1, SeverityWarning, <<65>>, 2, 0)
fLine10 == Finding(<<68>>, 1, SeverityWarning, <<65>>, 10, 0)
fInfo == Finding(<<66>>, 1, SeverityInfo, <<66>>, 0, 0)

FindingLists ==
    { <<>>,
      <<fDup1>>,
      <<fDup2>>,
      <<fDup1, fCrit, fErr>>,
      <<fLine2, fLine10, fAlias, fInfo>> }

\* The outcomes a registered checker is drawn from: the built-in checkers'
\* and the test mock's, and, since Checker is an interface anyone can
\* implement, a result that carries findings together with an error.
Outcomes ==
    {mockScannerRun(l, FALSE) : l \in FindingLists}
    \cup {codescanRun(<<>>, TRUE), ManifestScannerRun(<<>>, TRUE),
          datasafetyRun(<<>>, TRUE), datasafetyRun(<<fDup1>>, FALSE),
          Outcome(FALSE, FALSE, <<fCrit>>, FALSE, TRUE)}

\* Further checkers: ones that report one key twice themselves (fDup1 and
\* fDup2; fAlias and fDup1) next to ones reporting those keys too, the
\* data-safety checker after a failed walk, and implementations of the
\* Checker interface that return an error together with a result, with
\* findings or with Passed set.
FurtherOutcomes ==
    {mockScannerRun(l, FALSE) :
        l \in {<<>>, <<fDup1, fDup2>>, <<fAlias, fCrit, fDup1>>, <<fDup2, fErr>>}}
    \cup {Outcome(FALSE, FALSE, <<fCrit>>, FALSE, TRUE),
          Outcome(FALSE, TRUE, <<>>, FALSE, TRUE),
          datasafetyRun(<<>>, TRUE)}

\* ------------------------------------------------------------------------
\* State
\* ------------------------------------------------------------------------
VARIABLES
    \* Runner.Run (preflight)
    checkers,      \* r.checkers: the Run outcome of each registered checker
    onComplete,    \* TRUE iff the onComplete argument is non-nil
    mainpc,        \* position of the goroutine executing Runner.Run
    spawned,       \* number of iterations of the dispatch loop done
    upc,           \* position of each checker's goroutine
    cr,            \* each goroutine's local cr
    mu,            \* sync.Mutex: 0 when free, else the goroutine holding it
    wg,            \* sync.WaitGroup counter
    result,        \* the shared *ScanResult
    tmpFindings,   \* each goroutine's read of result.Findings (append)
    tmpTotal,      \* each goroutine's read of the counter it increments
    calls,         \* invocations of onComplete made by each goroutine
    \* manifest.Parse
    vocab,             \* which start tokens the document is written with
    pstate,            \* "scanning", "done" (m returned), "error" (nil, err)
    m,                 \* the *AndroidManifest being filled
    elementStack,      \* Parse's elementStack: names of the open elements
    currentComponent,  \* <<>> for nil, else <<componentCtx>>
    currentIntentFilter, \* <<>> for nil, else <<IntentFilter>>
    data,              \* Parse's data: the bytes of the document
    offset,            \* decoder.InputOffset() before the last start token
    line,              \* offsetToLine of the last start token
    nstart,            \* number of start tokens read
    openElements,      \* history: each open element's start token and line,
                       \* its number sn among the start tokens, the number
                       \* owner of the innermost component element open at
                       \* its start (0: none), and for an intent filter the
                       \* action and category names read since
    closedComponents,  \* history: component elements whose end token was read
    \* manifest.Validator and ManifestScanner.Run
    manifest,          \* v.manifest: the model the Validator was made for
    method,            \* the Validator method called, "none" before the call
    ret,               \* the findings the called method returned
    scan,              \* <<>> until ManifestScanner.Run returns, then its outcome
    \* deduplicateFindings called on its own
    dedupArg,          \* the []Finding first handed over: isNil, elems
    dedupRet,          \* the last []Finding returned (dedupArg before a call)
    dedupCalls,        \* number of calls made, each on the previous return
    \* cli: runScan
    project,           \* what the project path names: "dir", "file", "missing"
    opts,              \* scanOptions: format, severity, output ("" or a file)
    scanResult,        \* the *ScanResult runner.Run returns for the project
    report,            \* <<>> until NewReport is called, then <<its result>>
    outputData,        \* <<>> until the report is printed or written
    returned,          \* "pending", then "nil" or the error runScan returned
    \* codescan: Scanner.Run
    scFiles,           \* what scanFile returns for each file WalkFiles found
    scWalkErr,         \* TRUE iff WalkFiles returns an error
    scPc,              \* position of the goroutine executing Scanner.Run
    scNext,            \* number of iterations of the loop over files begun
    scUnit,            \* the goroutines started: how many are at each
                       \* position with each result of scanFile
    scSem,             \* number of values in the channel sem
    scWg,              \* sync.WaitGroup counter
    scMu,              \* sync.Mutex: 0 when free, 1 when locked
    scFindings,        \* the shared slice findings
    scResult           \* <<>> until Run returns, then <<its outcome>>

runVars == <<checkers, onComplete, mainpc, spawned, upc, cr, mu, wg, result,
             tmpFindings, tmpTotal, calls>>

parseVars == <<vocab, pstate, m, elementStack, currentComponent,
               currentIntentFilter, data, offset, line, nstart, openElements,
               closedComponents>>

valVars == <<manifest, method, ret, scan>>

dedupVars == <<dedupArg, dedupRet, dedupCalls>>

cliVars == <<project, opts, scanResult, report, outputData, returned>>

scVars == <<scFiles, scWalkErr, scPc, scNext, scUnit, scSem, scWg, scMu,
            scFindings, scResult>>

auxVars == <<dedupVars, cliVars, scVars>>

vars == <<runVars, parseVars, valVars, auxVars>>

\* ------------------------------------------------------------------------
\* Runner.Run
\* ------------------------------------------------------------------------
NumCheckers == Len(checkers)
Units == 1..NumCheckers

\* checker.ID(): the registered checkers have pairwise distinct ids (the
\* CLI registers "manifest", "code-scan", "DATA_SAFETY"); the id of the
\* i-th registered checker is modelled by i.
CheckerID(i) == i

NoCr == [CheckID |-> 0, Passed |-> FALSE, Findings |-> <<>>, Err |-> FALSE]

\* A normalisation that forgets to store the error in cr.Err.
NormaliseCrDropsErr(i, o) ==
    IF o.nilcr
    THEN [CheckID |-> CheckerID(i), Passed |-> FALSE,
          Findings |-> <<>>, Err |-> FALSE]
    ELSE [CheckID |-> CheckerID(i), Passed |-> o.Passed,
          Findings |-> o.Findings, Err |-> o.Err]

\* cr after lines 88-96: a nil result is replaced by an empty one, and a
\* non-nil error is stored in cr.Err.
NormaliseCr(i, o) ==
    LET base == IF o.nilcr
                THEN [CheckID |-> CheckerID(i), Passed |-> FALSE,
                      Findings |-> <<>>, Err |-> FALSE]
                ELSE [CheckID |-> CheckerID(i), Passed |-> o.Passed,
                      Findings |-> o.Findings, Err |-> o.Err]
    IN  IF o.err THEN [base EXCEPT !.Err = TRUE] ELSE base

\* The ScanResult built at the start of Run, for the checkers cs.
NewScanResult(cs) ==
    [ByScanner |-> <<>>, Findings |-> <<>>, TotalPassed |-> 0,
     TotalFailed |-> 0, ScannerIDs |-> [i \in 1..Len(cs) |-> CheckerID(i)]]

RunStart(cs, cb) ==
    /\ checkers = cs
    /\ onComplete = cb
    /\ mainpc = "dispatch"
    /\ spawned = 0
    /\ upc = [i \in 1..Len(cs) |-> "idle"]
    /\ cr = [i \in 1..Len(cs) |-> NoCr]
    /\ mu = 0
    /\ wg = 0
    /\ result = NewScanResult(cs)
    /\ tmpFindings = [i \in 1..Len(cs) |-> <<>>]
    /\ tmpTotal = [i \in 1..Len(cs) |-> 0]
    /\ calls = [i \in 1..Len(cs) |-> 0]

CheckerLists == UNION {[1..n -> Outcomes] : n \in 0..MaxCheckers}

\* One iteration of the dispatch loop: wg.Add(1) and the go statement.
Dispatch ==
    /\ mainpc = "dispatch"
    /\ spawned < NumCheckers
    /\ wg' = wg + 1
    /\ upc' = [upc EXCEPT ![spawned + 1] = "run"]
    /\ spawned' = spawned + 1
    /\ UNCHANGED <<checkers, onComplete, mainpc, cr, mu, result,
                   tmpFindings, tmpTotal, calls>>

DispatchDone ==
    /\ mainpc = "dispatch"
    /\ spawned = NumCheckers
    /\ mainpc' = "wait"
    /\ UNCHANGED <<checkers, onComplete, spawned, upc, cr, mu, wg, result,
                   tmpFindings, tmpTotal, calls>>

\* checker.Run and the normalisation of its result.
UnitRun(i) ==
    /\ upc[i] = "run"
    /\ cr' = [cr EXCEPT ![i] = NormaliseCr(i, checkers[i])]
    /\ upc' = [upc EXCEPT ![i] = "lock"]
    /\ UNCHANGED <<checkers, onComplete, mainpc, spawned, mu, wg, result,
                   tmpFindings, tmpTotal, calls>>

\* A lock that never blocks.
LockNeverBlocks(i) == TRUE

\* mu.Lock() blocks while another goroutine holds the mutex.
LockFree(i) == mu = 0

UnitLock(i) ==
    /\ upc[i] = "lock"
    /\ LockFree(i)
    /\ mu' = i
    /\ upc' = [upc EXCEPT ![i] = "setByScanner"]
    /\ UNCHANGED <<checkers, onComplete, mainpc, spawned, cr, wg, result,
                   tmpFindings, tmpTotal, calls>>

MapPut(mp, k, v) == [x \in DOMAIN mp \cup {k} |-> IF x = k THEN v ELSE mp[x]]

\* result.ByScanner[checker.ID()] = cr
UnitSetByScanner(i) ==
    /\ upc[i] = "setByScanner"
    /\ result' = [result EXCEPT !.ByScanner = MapPut(@, CheckerID(i), cr[i])]
    /\ upc' = [upc EXCEPT ![i] = "appendRead"]
    /\ UNCHANGED <<checkers, onComplete, mainpc, spawned, cr, mu, wg,
                   tmpFindings, tmpTotal, calls>>

\* result.Findings = append(result.Findings, cr.Findings...): the read of
\* the slice and the write of the grown slice are two memory accesses.
UnitAppendRead(i) ==
    /\ upc[i] = "appendRead"
    /\ tmpFindings' = [tmpFindings EXCEPT ![i] = result.Findings]
    /\ upc' = [upc EXCEPT ![i] = "appendWrite"]
    /\ UNCHANGED <<checkers, onComplete, mainpc, spawned, cr, mu, wg, result,
                   tmpTotal, calls>>

UnitAppendWrite(i) ==
    /\ upc[i] = "appendWrite"
    /\ result' = [result EXCEPT !.Findings = tmpFindings[i] \o cr[i].Findings]
    /\ tmpFindings' = [tmpFindings EXCEPT ![i] = <<>>]
    /\ upc' = [upc EXCEPT ![i] = "countRead"]
    /\ UNCHANGED <<checkers, onComplete, mainpc, spawned, cr, mu, wg,
                   tmpTotal, calls>>

\* A count that takes a checker without findings as passed.
CountsAsPassedNoFindings(c) == Len(c.Findings) = 0

\* if cr.Passed { result.TotalPassed++ } else { result.TotalFailed++ }
CountsAsPassed(c) == c.Passed

UnitCountRead(i) ==
    /\ upc[i] = "countRead"
    /\ tmpTotal' = [tmpTotal EXCEPT ![i] =
                       IF CountsAsPassed(cr[i]) THEN result.TotalPassed
                       ELSE result.TotalFailed]
    /\ upc' = [upc EXCEPT ![i] = "countWrite"]
    /\ UNCHANGED <<checkers, onComplete, mainpc, spawned, cr, mu, wg, result,
                   tmpFindings, calls>>

UnitCountWrite(i) ==
    /\ upc[i] = "countWrite"
    /\ result' = IF CountsAsPassed(cr[i])
                 THEN [result EXCEPT !.TotalPassed = tmpTotal[i] + 1]
                 ELSE [result EXCEPT !.TotalFailed = tmpTotal[i] + 1]
    /\ tmpTotal' = [tmpTotal EXCEPT ![i] = 0]
    /\ upc' = [upc EXCEPT ![i] = "unlock"]
    /\ UNCHANGED <<checkers, onComplete, mainpc, spawned, cr, mu, wg,
                   tmpFindings, calls>>

\* mu.Unlock()
UnitUnlock(i) ==
    /\ upc[i] = "unlock"
    /\ mu' = 0
    /\ upc' = [upc EXCEPT ![i] = "callback"]
    /\ UNCHANGED <<checkers, onComplete, mainpc, spawned, cr, wg, result,
                   tmpFindings, tmpTotal, calls>>

\* A callback that is only made for checkers that passed.
CallbackOnlyOnPass(i) == IF onComplete /\ cr[i].Passed THEN 1 ELSE 0

\* if onComplete != nil { onComplete() }
CallbackCalls(i) == IF onComplete THEN 1 ELSE 0

UnitCallback(i) ==
    /\ upc[i] = "callback"
    /\ calls' = [calls EXCEPT ![i] = @ + CallbackCalls(i)]
    /\ upc' = [upc EXCEPT ![i] = "done"]
    /\ UNCHANGED <<checkers, onComplete, mainpc, spawned, cr, mu, wg, result,
                   tmpFindings, tmpTotal>>

\* The deferred wg.Done().
UnitDone(i) ==
    /\ upc[i] = "done"
    /\ wg' = wg - 1
    /\ upc' = [upc EXCEPT ![i] = "finished"]
    /\ UNCHANGED <<checkers, onComplete, mainpc, spawned, cr, mu, result,
                   tmpFindings, tmpTotal, calls>>

\* A wait that does not block.
WaitNeverBlocks == TRUE

\* wg.Wait() returns when the counter is zero.
WaitOver == wg = 0

Wait ==
    /\ mainpc = "wait"
    /\ WaitOver
    /\ mainpc' = "dedup"
    /\ UNCHANGED <<checkers, onComplete, spawned, upc, cr, mu, wg, result,
                   tmpFindings, tmpTotal, calls>>

Dedup ==
    /\ mainpc = "dedup"
    /\ result' = [result EXCEPT !.Findings = deduplicateFindings(@)]
    /\ mainpc' = "sort"
    /\ UNCHANGED <<checkers, onComplete, spawned, upc, cr, mu, wg,
                   tmpFindings, tmpTotal, calls>>

Sort ==
    /\ mainpc = "sort"
    /\ result' = [result EXCEPT !.Findings = SortFindings(@)]
    /\ mainpc' = "returned"
    /\ UNCHANGED <<checkers, onComplete, spawned, upc, cr, mu, wg,
                   tmpFindings, tmpTotal, calls>>

Unit(i) ==
    \/ UnitRun(i)
    \/ UnitLock(i)
    \/ UnitSetByScanner(i)
    \/ UnitAppendRead(i)
    \/ UnitAppendWrite(i)
    \/ UnitCountRead(i)
    \/ UnitCountWrite(i)
    \/ UnitUnlock(i)
    \/ UnitCallback(i)
    \/ UnitDone(i)

\* Scenario D: three registered checkers, one of which (at any position)
\* fails because its document is not found, as ManifestScanner.Run and the
\* code scanner's Run do; the other two return without error.
DocumentNotFound == {ManifestScannerRun(<<>>, TRUE), codescanRun(<<>>, TRUE)}

WithoutError == {o \in Outcomes : ~o.err /\ ~o.Err}

\* ------------------------------------------------------------------------
\* Vocabulary of the properties of Runner.Run
\* ------------------------------------------------------------------------
Returned == mainpc = "returned"
PastWait == mainpc \in {"dedup", "sort", "returned"}

MergeSection ==
    {"setByScanner", "appendRead", "appendWrite", "countRead", "countWrite",
     "unlock"}
InMerge(i) == upc[i] \in MergeSection
Appended(i) ==
    upc[i] \in {"countRead", "countWrite", "unlock", "callback", "done",
                "finished"}
Counted(i) == upc[i] \in {"unlock", "callback", "done", "finished"}

\* What checker i hands to the merge, read off its Run outcome.
ReportedFindings(i) ==
    IF checkers[i].nilcr THEN <<>> ELSE checkers[i].Findings
ReportedPassed(i) == ~checkers[i].nilcr /\ checkers[i].Passed
ReturnsError(i) == checkers[i].err

RECURSIVE SumOver(_, _)
SumOver(S, n) ==
    IF S = {} THEN 0
    ELSE LET i == CHOOSE x \in S : TRUE
         IN  n[i] + SumOver(S \ {i}, n)

Range(q) == {q[i] : i \in DOMAIN q}
KeyOf(f) == <<f.CheckID, LocationString(f.Location)>>
WithKey(q, k) == {i \in DOMAIN q : KeyOf(q[i]) = k}

\* The registered checkers' findings, in registration order.
RECURSIVE ConcatReported(_)
ConcatReported(n) ==
    IF n = 0 THEN <<>> ELSE ConcatReported(n - 1) \o ReportedFindings(n)

\* ------------------------------------------------------------------------
\* Properties of Runner.Run
\* ------------------------------------------------------------------------
\* C1: once wg.Wait() has let Run through, and so when Run returns, no
\* checker goroutine is still running, every checker has an entry in
\* ByScanner and TotalPassed + TotalFailed is the number of registered
\* checkers (0 for an empty runner, which returns a result all the same).
C1_ReturnsAfterAllMerged ==
    PastWait =>
        /\ \A i \in Units : upc[i] = "finished"
        /\ result.TotalPassed + result.TotalFailed = NumCheckers
        /\ DOMAIN result.ByScanner = {CheckerID(i) : i \in Units}
        /\ mu = 0

C1_Witness ==
    /\ Returned
    /\ NumCheckers = MaxCheckers
    /\ result.TotalPassed >= 1
    /\ result.TotalFailed >= 1

\* C2: a non-nil onComplete is invoked at most once by each checker's
\* goroutine at any time, only after that checker's outcome has been merged
\* (its ByScanner entry, its findings and its count are in the result and
\* the mutex is released), and exactly once by each before Run gets past
\* wg.Wait().
C2_CallbackOncePerChecker ==
    onComplete =>
        /\ \A i \in Units :
            /\ calls[i] <= 1
            /\ calls[i] = 1 =>
                /\ upc[i] \in {"done", "finished"}
                /\ CheckerID(i) \in DOMAIN result.ByScanner
                /\ mu # i
            /\ upc[i] \in {"done", "finished"} => calls[i] = 1
        /\ PastWait => \A i \in Units : calls[i] = 1

C2_Witness ==
    /\ onComplete
    /\ Returned
    /\ NumCheckers = MaxCheckers
    /\ \A i \in Units : calls[i] = 1
    /\ \E i \in Units : ~ReportedPassed(i)

\* C3: the list Run returns holds no two findings with the same
\* (CheckID, Location.String()), and a key that two different checkers both
\* reported is held exactly once.
C3_NoDuplicateKeys ==
    Returned =>
        /\ \A i, j \in DOMAIN result.Findings :
              KeyOf(result.Findings[i]) = KeyOf(result.Findings[j]) => i = j
        /\ \A a, b \in Units : \A f \in Range(ReportedFindings(a)) :
              (a # b /\ \E g \in Range(ReportedFindings(b)) : KeyOf(g) = KeyOf(f))
                  => Cardinality(WithKey(result.Findings, KeyOf(f))) = 1

C3_Witness ==
    /\ Returned
    /\ \E a, b \in Units :
          /\ a # b
          /\ \E f \in Range(ReportedFindings(a)), g \in Range(ReportedFindings(b)) :
                /\ f # g
                /\ f.Location # g.Location
                /\ KeyOf(f) = KeyOf(g)
                /\ Cardinality(WithKey(result.Findings, KeyOf(f))) = 1

\* C4: whatever the order in which the checkers complete, the list Run
\* returns is the list it returns when they complete in registration order.
C4_SameListForEveryCompletionOrder ==
    Returned =>
        result.Findings =
            SortFindings(deduplicateFindings(ConcatReported(NumCheckers)))

\* C5: a checker whose Run returns an error leaves the scan complete: its
\* ByScanner entry exists with Err set (also when it returned a nil
\* result), and every checker's outcome, its siblings' included, is merged
\* as the checker returned it: the ByScanner entry carries its Passed and
\* Findings, its findings are in the merged buffer, it is counted once on
\* the side its Passed selects, and every key it reported is in the final
\* list.
C5_ErrorStaysLocal ==
    PastWait =>
        /\ \A i \in Units :
            /\ CheckerID(i) \in DOMAIN result.ByScanner
            /\ ReturnsError(i) => result.ByScanner[CheckerID(i)].Err
            /\ result.ByScanner[CheckerID(i)].Passed = ReportedPassed(i)
            /\ result.ByScanner[CheckerID(i)].Findings = ReportedFindings(i)
            /\ \A f \in Range(ReportedFindings(i)) :
                  WithKey(result.Findings, KeyOf(f)) # {}
        /\ result.TotalPassed = Cardinality({i \in Units : ReportedPassed(i)})
        /\ result.TotalFailed = Cardinality({i \in Units : ~ReportedPassed(i)})
        /\ mainpc = "dedup" =>
              Len(result.Findings) =
                  SumOver(Units, [i \in Units |-> Len(ReportedFindings(i))])

C5_Witness ==
    /\ Returned
    /\ \E a, b \in Units :
          /\ ReturnsError(a) /\ checkers[a].nilcr
          /\ result.ByScanner[CheckerID(a)].Err
          /\ ~ReturnsError(b) /\ ReportedFindings(b) # <<>>
          /\ result.ByScanner[CheckerID(b)].Findings = ReportedFindings(b)

\* C6: every finding of the list Run returns was reported by a checker
\* whose Run returned no error.
C6_FailedCheckerContributesNothing ==
    Returned =>
        \A f \in Range(result.Findings) :
            \E i \in Units : ~ReturnsError(i) /\ f \in Range(ReportedFindings(i))

\* Scenario D holds of the registered checkers: three of them, exactly one
\* returning an error (document not found), the others returning none.
ScenarioD ==
    /\ NumCheckers = 3
    /\ Cardinality({i \in Units : ReturnsError(i)}) = 1
    /\ \A i \in Units :
          IF ReturnsError(i) THEN checkers[i] \in DocumentNotFound
          ELSE ~checkers[i].Err

FromACheckerThatDidNotFail(f) ==
    \E i \in Units : ~ReturnsError(i) /\ f \in Range(ReportedFindings(i))

C8_MergeUnderTheMutex ==
    /\ \A i \in Units : InMerge(i) => mu = i
    /\ Cardinality({i \in Units : InMerge(i)}) <= 1
    /\ mainpc \in {"dispatch", "wait", "dedup"} =>
        /\ Len(result.Findings) =
              SumOver({i \in Units : Appended(i)},
                      [i \in Units |-> Len(ReportedFindings(i))])
        /\ \A i \in Units : Appended(i) =>
              Range(ReportedFindings(i)) \subseteq Range(result.Findings)
        /\ result.TotalPassed + result.TotalFailed =
              Cardinality({i \in Units : Counted(i)})
        /\ \A i \in Units : (Appended(i) \/ upc[i] \in {"appendRead", "appendWrite"})
              => CheckerID(i) \in DOMAIN result.ByScanner

C8_Witness ==
    \E i, j \in Units :
        /\ i # j
        /\ upc[i] = "appendWrite"
        /\ mu = i
        /\ upc[j] = "lock"
        /\ ReportedFindings(i) # <<>>
        /\ ReportedFindings(j) # <<>>

\* C9: in the list Run returns every adjacent pair is ordered by severity
\* descending, then CheckID ascending, then Location.String() ascending;
\* findings reported as [Warning, Critical, Error] by the only checker come
\* out as [Critical, Error, Warning].
InFinalOrder(a, b) ==
    \/ a.Severity > b.Severity
    \/ /\ a.Severity = b.Severity
       /\ \/ StrLess(a.CheckID, b.CheckID)
          \/ /\ a.CheckID = b.CheckID
             /\ \/ StrLess(LocationString(a.Location), LocationString(b.Location))
                \/ LocationString(a.Location) = LocationString(b.Location)

SeveritiesOf(q) == [i \in DOMAIN q |-> q[i].Severity]

C9_SortedBySeverityIdLocation ==
    Returned =>
        /\ \A i \in 1..(Len(result.Findings) - 1) :
              InFinalOrder(result.Findings[i], result.Findings[i + 1])
        /\ (/\ NumCheckers = 1
            /\ SeveritiesOf(ReportedFindings(1)) =
                  <<SeverityWarning, SeverityCritical, SeverityError>>)
           => SeveritiesOf(result.Findings) =
                  <<SeverityCritical, SeverityError, SeverityWarning>>

C9_Witness ==
    /\ Returned
    /\ NumCheckers = 1
    /\ SeveritiesOf(ReportedFindings(1)) =
          <<SeverityWarning, SeverityCritical, SeverityError>>
    /\ SeveritiesOf(result.Findings) =
          <<SeverityCritical, SeverityError, SeverityWarning>>

\* ------------------------------------------------------------------------
\* manifest/parser.go
\* ------------------------------------------------------------------------
\* A token of encoding/xml: Local is the element name, Attr the attribute
\* list in document order, each attribute a name and a value.
Attr(name, value) == [Name |-> name, Value |-> value]
Tok(local, attrs) == [Local |-> local, Attr |-> attrs]

StrTrue == <<116, 114, 117, 101>>
StrFalse == <<102, 97, 108, 115, 101>>

\* strings.EqualFold(v, "true"): no letter of "true" has a fold outside
\* ASCII, so folding is the ASCII lower-casing of v.
ToLower(b) == IF b >= 65 /\ b <= 90 THEN b + 32 ELSE b
EqualFoldTrue(v) == [i \in DOMAIN v |-> ToLower(v[i])] = StrTrue

\* strconv.Atoi with the error dropped: 0 unless v is an optionally signed
\* run of decimal digits.
IsDigits(v) == v # <<>> /\ \A i \in DOMAIN v : v[i] >= 48 /\ v[i] <= 57

RECURSIVE DigitsValue(_)
DigitsValue(v) ==
    IF v = <<>> THEN 0
    ELSE DigitsValue(SubSeq(v, 1, Len(v) - 1)) * 10 + (v[Len(v)] - 48)

Atoi(v) ==
    IF IsDigits(v) THEN DigitsValue(v)
    ELSE IF Len(v) > 1 /\ v[1] = 43 /\ IsDigits(Tail(v)) THEN DigitsValue(Tail(v))
    ELSE IF Len(v) > 1 /\ v[1] = 45 /\ IsDigits(Tail(v)) THEN 0 - DigitsValue(Tail(v))
    ELSE 0

\* &AndroidManifest{}: every field zero.
NewManifest ==
    [Package |-> <<>>, VersionCode |-> 0, VersionName |-> <<>>,
     MinSdkVersion |-> 0, TargetSdkVersion |-> 0, CompileSdkVersion |-> 0,
     UsesCleartext |-> FALSE, HasCleartext |-> FALSE,
     Permissions |-> <<>>, Activities |-> <<>>, Services |-> <<>>,
     Receivers |-> <<>>, Providers |-> <<>>, filePath |-> <<>>]

RECURSIVE parseManifestAttrs(_, _)
parseManifestAttrs(mm, attrs) ==
    IF attrs = <<>> THEN mm
    ELSE LET a == Head(attrs)
             next == IF a.Name = "package" THEN [mm EXCEPT !.Package = a.Value]
                     ELSE IF a.Name = "versionCode"
                          THEN [mm EXCEPT !.VersionCode = Atoi(a.Value)]
                     ELSE IF a.Name = "versionName"
                          THEN [mm EXCEPT !.VersionName = a.Value]
                     ELSE IF a.Name = "compileSdkVersion"
                          THEN [mm EXCEPT !.CompileSdkVersion = Atoi(a.Value)]
                     ELSE mm
         IN  parseManifestAttrs(next, Tail(attrs))

RECURSIVE parseUsesSdkAttrs(_, _)
parseUsesSdkAttrs(mm, attrs) ==
    IF attrs = <<>> THEN mm
    ELSE LET a == Head(attrs)
             next == IF a.Name = "minSdkVersion"
                     THEN [mm EXCEPT !.MinSdkVersion = Atoi(a.Value)]
                     ELSE IF a.Name = "targetSdkVersion"
                          THEN [mm EXCEPT !.TargetSdkVersion = Atoi(a.Value)]
                     ELSE mm
         IN  parseUsesSdkAttrs(next, Tail(attrs))

RECURSIVE parseApplicationAttrs(_, _)
parseApplicationAttrs(mm, attrs) ==
    IF attrs = <<>> THEN mm
    ELSE LET a == Head(attrs)
             next == IF a.Name = "usesCleartextTraffic"
                     THEN [mm EXCEPT !.HasCleartext = TRUE,
                                     !.UsesCleartext = EqualFoldTrue(a.Value)]
                     ELSE mm
         IN  parseApplicationAttrs(next, Tail(attrs))

RECURSIVE PermissionAttrs(_, _)
PermissionAttrs(perm, attrs) ==
    IF attrs = <<>> THEN perm
    ELSE LET a == Head(attrs)
             next == IF a.Name = "name" THEN [perm EXCEPT !.Name = a.Value]
                     ELSE IF a.Name = "maxSdkVersion"
                          THEN [perm EXCEPT !.MaxSdk = Atoi(a.Value)]
                     ELSE IF a.Name = "required"
                          THEN [perm EXCEPT !.Required = EqualFoldTrue(a.Value)]
                     ELSE perm
         IN  PermissionAttrs(next, Tail(attrs))

parsePermission(attrs, ln) ==
    PermissionAttrs([Name |-> <<>>, MaxSdk |-> 0, Line |-> ln,
                     Required |-> TRUE], attrs)

\* parseComponentAttrs: exported is <<>> for a nil *bool, <<b>> for &b.
RECURSIVE ComponentAttrs(_, _)
ComponentAttrs(acc, attrs) ==
    IF attrs = <<>> THEN acc
    ELSE LET a == Head(attrs)
             next == IF a.Name = "name" THEN [acc EXCEPT !.name = a.Value]
                     ELSE IF a.Name = "exported"
                          THEN [acc EXCEPT !.exported = <<EqualFoldTrue(a.Value)>>]
                     ELSE acc
         IN  ComponentAttrs(next, Tail(attrs))

parseComponentAttrsDefaultFalse(attrs) ==
    ComponentAttrs([name |-> <<>>, exported |-> <<FALSE>>], attrs)

parseComponentAttrs(attrs) ==
    ComponentAttrs([name |-> <<>>, exported |-> <<>>], attrs)

\* The name attributes of an action or category token, in order.
RECURSIVE NameValues(_)
NameValues(attrs) ==
    IF attrs = <<>> THEN <<>>
    ELSE IF Head(attrs).Name = "name"
         THEN <<Head(attrs).Value>> \o NameValues(Tail(attrs))
         ELSE NameValues(Tail(attrs))

ComponentElementsAndMetaData ==
    {"activity", "activity-alias", "service", "receiver", "provider",
     "meta-data"}

ComponentElements ==
    {"activity", "activity-alias", "service", "receiver", "provider"}

\* The kind a component start or end token stands for.
KindOf(local) == IF local = "activity-alias" THEN "activity" ELSE local

\* The model field a kind's records are appended to.
AppendComponent(mm, kind, rec) ==
    IF kind = "activity" THEN [mm EXCEPT !.Activities = Append(@, rec)]
    ELSE IF kind = "service" THEN [mm EXCEPT !.Services = Append(@, rec)]
    ELSE IF kind = "receiver" THEN [mm EXCEPT !.Receivers = Append(@, rec)]
    ELSE [mm EXCEPT !.Providers = Append(@, rec)]

\* buildLineOffsets starting from an empty index instead of {0}.
buildLineOffsetsNoFirstLine(content) ==
    LET RECURSIVE loop(_, _)
        loop(i, offsets) ==
            IF i > Len(content) THEN offsets
            ELSE loop(i + 1, IF content[i] = 10 THEN Append(offsets, i)
                             ELSE offsets)
    IN  loop(1, <<>>)

\* buildLineOffsets: 0, then the offset after each newline byte.
buildLineOffsets(content) ==
    LET RECURSIVE loop(_, _)
        loop(i, offsets) ==
            IF i > Len(content) THEN offsets
            ELSE loop(i + 1, IF content[i] = 10 THEN Append(offsets, i)
                             ELSE offsets)
    IN  loop(1, <<0>>)

\* offsetToLine with `<` for `<=`: the search for a lower bound.
offsetToLineLowerBound(lineOffsets, off) ==
    LET RECURSIVE loop(_, _)
        loop(lo, hi) ==
            IF lo > hi THEN lo
            ELSE LET mid == (lo + hi) \div 2
                 IN  IF lineOffsets[mid + 1] < off THEN loop(mid + 1, hi)
                     ELSE loop(lo, mid - 1)
    IN  loop(0, Len(lineOffsets) - 1)

\* offsetToLine: the binary search over the 0-based indexes lo..hi; the
\* element lineOffsets[mid] of the slice is the (mid + 1)-th of the sequence.
offsetToLine(lineOffsets, off) ==
    LET RECURSIVE loop(_, _)
        loop(lo, hi) ==
            IF lo > hi THEN lo
            ELSE LET mid == (lo + hi) \div 2
                 IN  IF lineOffsets[mid + 1] <= off THEN loop(mid + 1, hi)
                     ELSE loop(lo, mid - 1)
    IN  loop(0, Len(lineOffsets) - 1)

\* componentCtx of a component start token.
NewComponentCtx(t, ln) ==
    LET pa == parseComponentAttrs(t.Attr)
    IN  [kind |-> KindOf(t.Local), name |-> pa.name, exported |-> pa.exported,
         intentFilters |-> <<>>, line |-> ln]

\* A StartElement whose intent-filter case leaves a filter that is still
\* open in place instead of starting a new one.
StartElementKeepsOpenFilter(t, ln) ==
    /\ elementStack' = Append(elementStack, t.Local)
    /\ m' = IF t.Local = "manifest" THEN parseManifestAttrs(m, t.Attr)
            ELSE IF t.Local = "uses-sdk" THEN parseUsesSdkAttrs(m, t.Attr)
            ELSE IF t.Local = "application" THEN parseApplicationAttrs(m, t.Attr)
            ELSE IF t.Local = "uses-permission"
                 THEN [m EXCEPT !.Permissions = Append(@, parsePermission(t.Attr, ln))]
            ELSE m
    /\ currentComponent' =
            IF t.Local \in ComponentElements THEN <<NewComponentCtx(t, ln)>>
            ELSE currentComponent
    /\ currentIntentFilter' =
            IF t.Local = "intent-filter" /\ currentIntentFilter = <<>>
            THEN <<[Actions |-> <<>>, Categories |-> <<>>, Line |-> ln]>>
            ELSE IF t.Local = "action" /\ currentIntentFilter # <<>>
                 THEN <<[currentIntentFilter[1] EXCEPT
                            !.Actions = @ \o NameValues(t.Attr)]>>
            ELSE IF t.Local = "category" /\ currentIntentFilter # <<>>
                 THEN <<[currentIntentFilter[1] EXCEPT
                            !.Categories = @ \o NameValues(t.Attr)]>>
            ELSE currentIntentFilter

\* case xml.StartElement of Parse's loop, for the token t on line ln.
StartElement(t, ln) ==
    /\ elementStack' = Append(elementStack, t.Local)
    /\ m' = IF t.Local = "manifest" THEN parseManifestAttrs(m, t.Attr)
            ELSE IF t.Local = "uses-sdk" THEN parseUsesSdkAttrs(m, t.Attr)
            ELSE IF t.Local = "application" THEN parseApplicationAttrs(m, t.Attr)
            ELSE IF t.Local = "uses-permission"
                 THEN [m EXCEPT !.Permissions = Append(@, parsePermission(t.Attr, ln))]
            ELSE m
    /\ currentComponent' =
            IF t.Local \in ComponentElements THEN <<NewComponentCtx(t, ln)>>
            ELSE currentComponent
    /\ currentIntentFilter' =
            IF t.Local = "intent-filter"
            THEN <<[Actions |-> <<>>, Categories |-> <<>>, Line |-> ln]>>
            ELSE IF t.Local = "action" /\ currentIntentFilter # <<>>
                 THEN <<[currentIntentFilter[1] EXCEPT
                            !.Actions = @ \o NameValues(t.Attr)]>>
            ELSE IF t.Local = "category" /\ currentIntentFilter # <<>>
                 THEN <<[currentIntentFilter[1] EXCEPT
                            !.Categories = @ \o NameValues(t.Attr)]>>
            ELSE currentIntentFilter

\* A component end token appends the open component when its kind matches.
ClosesCurrent(local) ==
    /\ local \in ComponentElements
    /\ currentComponent # <<>>
    /\ currentComponent[1].kind = KindOf(local)

\* case xml.EndElement of Parse's loop, for the end token of element local.
EndElement(local) ==
    /\ currentIntentFilter' =
            IF local = "intent-filter" THEN <<>> ELSE currentIntentFilter
    /\ currentComponent' =
            IF local = "intent-filter" /\ currentIntentFilter # <<>>
               /\ currentComponent # <<>>
            THEN <<[currentComponent[1] EXCEPT
                       !.intentFilters = Append(@, currentIntentFilter[1])]>>
            ELSE IF ClosesCurrent(local) THEN <<>>
            ELSE currentComponent
    /\ m' = IF ClosesCurrent(local)
            THEN AppendComponent(m, KindOf(local),
                    [Name |-> currentComponent[1].name,
                     Exported |-> currentComponent[1].exported,
                     IntentFilters |-> currentComponent[1].intentFilters,
                     Line |-> currentComponent[1].line])
            ELSE m
    /\ elementStack' =
            IF Len(elementStack) > 0
            THEN SubSeq(elementStack, 1, Len(elementStack) - 1)
            ELSE elementStack

\* Documents written with component elements (name A, exported absent,
\* "true" or "false"), intent filters, a permission and an unknown element.
NameA == <<65>>

\* "android.intent.action.MAIN"
ActionMain ==
    <<97, 110, 100, 114, 111, 105, 100, 46, 105, 110, 116, 101, 110, 116, 46, 97, 99, 116, 105, 111, 110, 46, 77, 65, 73, 78>>

\* "android.intent.category.LAUNCHER"
CategoryLauncher ==
    <<97, 110, 100, 114, 111, 105, 100, 46, 105, 110, 116, 101, 110, 116, 46, 99, 97, 116, 101, 103, 111, 114, 121, 46, 76, 65, 85, 78, 67, 72, 69, 82>>

\* "android.permission.SEND_SMS"
PermissionSendSms ==
    <<97, 110, 100, 114, 111, 105, 100, 46, 112, 101, 114, 109, 105, 115, 115, 105, 111, 110, 46, 83, 69, 78, 68, 95, 83, 77, 83>>

ComponentTokens ==
    {Tok(n, <<Attr("name", NameA)>> \o e) :
        n \in ComponentElements,
        e \in {<<>>, <<Attr("exported", StrTrue)>>, <<Attr("exported", StrFalse)>>}}

VocabComponents ==
    ComponentTokens \cup
    {Tok("intent-filter", <<>>),
     Tok("action", <<Attr("name", ActionMain)>>),
     Tok("category", <<Attr("name", CategoryLauncher)>>),
     Tok("uses-permission", <<Attr("name", PermissionSendSms)>>),
     Tok("meta-data", <<Attr("name", NameA)>>)}

\* Documents written with component elements only, one start token for
\* each way of writing the exported attribute, the five element names
\* shared out among them; the name attribute tells the
\* ways apart: "N" (78) absent, "T" (84) "true", "U" (85) "TRUE", "F" (70)
\* "false", "O" (79) "1", and "M" (77) absent next to another attribute
\* whose text is "true".
VocabExported ==
    {Tok("activity", <<Attr("name", <<78>>)>>),
     Tok("activity-alias", <<Attr("name", <<84>>), Attr("exported", StrTrue)>>),
     Tok("service",
         <<Attr("exported", <<84, 82, 85, 69>>), Attr("name", <<85>>)>>),
     Tok("receiver", <<Attr("name", <<70>>), Attr("exported", StrFalse)>>),
     Tok("provider", <<Attr("name", <<79>>), Attr("exported", <<49>>)>>),
     Tok("activity", <<Attr("name", <<77>>), Attr("enabled", StrTrue)>>)}

\* Documents with component elements inside one another, intent filters
\* and their actions in and out of place, and an element Parse has no case
\* for.
VocabNesting ==
    {Tok("activity", <<Attr("name", NameA), Attr("exported", StrTrue)>>),
     Tok("service", <<Attr("name", NameA)>>),
     Tok("activity-alias", <<Attr("name", NameA)>>),
     Tok("intent-filter", <<>>),
     Tok("action", <<Attr("name", ActionMain)>>),
     Tok("meta-data", <<Attr("name", NameA), Attr("exported", StrTrue)>>)}

\* Documents ManifestScanner.Run reads: a manifest element, a target
\* version "35", cleartext traffic enabled, the SEND_SMS permission and an
\* activity with an intent filter.
VocabScan ==
    {Tok("manifest", <<Attr("package", NameA)>>),
     Tok("uses-sdk", <<Attr("targetSdkVersion", <<51, 53>>)>>),
     Tok("application", <<Attr("usesCleartextTraffic", StrTrue)>>),
     Tok("uses-permission", <<Attr("name", PermissionSendSms)>>),
     Tok("activity", <<Attr("name", NameA)>>),
     Tok("intent-filter", <<>>)}

\* Documents with two kinds of component, intent filters, actions and
\* categories, in and out of place.
VocabFilters ==
    {Tok("activity", <<Attr("name", NameA)>>),
     Tok("service", <<Attr("name", <<83>>)>>),
     Tok("intent-filter", <<>>),
     Tok("action", <<Attr("name", ActionMain)>>),
     Tok("category", <<Attr("name", CategoryLauncher)>>)}

\* Documents with a permission, an intent filter and a component of each
\* kind.
VocabLines ==
    {Tok("uses-permission", <<Attr("name", PermissionSendSms)>>),
     Tok("intent-filter", <<>>),
     Tok("activity", <<Attr("name", NameA)>>),
     Tok("service", <<Attr("name", NameA)>>),
     Tok("receiver", <<Attr("name", NameA)>>),
     Tok("provider", <<Attr("name", NameA)>>)}

\* The start tokens of a vocabulary.
VocabTokens(v) ==
    IF v = "components" THEN VocabComponents
    ELSE IF v = "lines" THEN VocabLines
    ELSE IF v = "filters" THEN VocabFilters
    ELSE IF v = "exported" THEN VocabExported
    ELSE IF v = "nesting" THEN VocabNesting
    ELSE IF v = "scan" THEN VocabScan
    ELSE {}

\* The decoder (Strict = false) hands Parse a well-nested token stream: an
\* end token always names the innermost open element (a mismatched end tag
\* is turned into the end tokens of the elements it closes), an end tag with
\* nothing open and an end of input with something open are syntax errors.
\* Character data, comments and directives reach no case of the switch and
\* are left out.  The input offset read before a token is the one read
\* before the previous token or a later one, and at most the length of the
\* document; before the first call it is 0, which offsetToLine turns into
\* line 1.
ParseStartOn(voc, content) ==
    /\ vocab = voc
    /\ pstate = "scanning"
    /\ m = NewManifest
    /\ elementStack = <<>>
    /\ currentComponent = <<>>
    /\ currentIntentFilter = <<>>
    /\ data = content
    /\ offset = 0
    /\ line = offsetToLine(buildLineOffsets(content), 0)
    /\ nstart = 0
    /\ openElements = <<>>
    /\ closedComponents = <<>>

\* History: the number of the innermost open component element, 0 if none.
RECURSIVE InnermostComponent(_)
InnermostComponent(open) ==
    IF open = <<>> THEN 0
    ELSE IF open[Len(open)].tok.Local \in ComponentElements
         THEN open[Len(open)].sn
         ELSE InnermostComponent(SubSeq(open, 1, Len(open) - 1))

\* History: the names of an action or category token t are noted in every
\* open intent-filter element.
Noted(open, t) ==
    [i \in DOMAIN open |->
        IF open[i].tok.Local # "intent-filter" THEN open[i]
        ELSE IF t.Local = "action"
             THEN [open[i] EXCEPT !.acts = @ \o NameValues(t.Attr)]
        ELSE IF t.Local = "category"
             THEN [open[i] EXCEPT !.cats = @ \o NameValues(t.Attr)]
        ELSE open[i]]

\* Documents with filters are read up to one start token more.
StartTokenLimit ==
    IF vocab = "filters" THEN MaxStartTokens + 1 ELSE MaxStartTokens

\* A document of MaxLine lines: a newline byte ends each line but the last.
ParseStart(voc) == ParseStartOn(voc, [i \in 1..(MaxLine - 1) |-> 10])

TokenStart ==
    /\ pstate = "scanning"
    /\ nstart < StartTokenLimit
    /\ \E t \in VocabTokens(vocab), off \in offset..Len(data) :
          LET ln == offsetToLine(buildLineOffsets(data), off)
          IN  /\ StartElement(t, ln)
              /\ offset' = off
              /\ line' = ln
              /\ openElements' =
                    Append(Noted(openElements, t),
                           [tok |-> t, line |-> ln, sn |-> nstart + 1,
                            owner |-> InnermostComponent(openElements),
                            acts |-> <<>>, cats |-> <<>>])
    /\ nstart' = nstart + 1
    /\ UNCHANGED <<vocab, pstate, data, closedComponents>>

TokenEnd ==
    /\ pstate = "scanning"
    /\ openElements # <<>>
    /\ LET e == openElements[Len(openElements)]
       IN  /\ EndElement(e.tok.Local)
           /\ closedComponents' =
                 IF e.tok.Local \in ComponentElements
                 THEN Append(closedComponents, e)
                 ELSE closedComponents
    /\ openElements' = SubSeq(openElements, 1, Len(openElements) - 1)
    /\ UNCHANGED <<vocab, pstate, data, offset, line, nstart>>

\* decoder.Token() returns io.EOF: Parse returns m.
TokenEOF ==
    /\ pstate = "scanning"
    /\ openElements = <<>>
    /\ pstate' = "done"
    /\ UNCHANGED <<vocab, m, elementStack, currentComponent,
                   currentIntentFilter, data, offset, line, nstart,
                   openElements, closedComponents>>

\* decoder.Token() returns another error (a syntax error anywhere, the
\* input ending inside an element): Parse returns nil and the error.
TokenError ==
    /\ pstate = "scanning"
    /\ pstate' = "error"
    /\ UNCHANGED <<vocab, m, elementStack, currentComponent,
                   currentIntentFilter, data, offset, line, nstart,
                   openElements, closedComponents>>

\* Contents of newline bytes and bytes "x", and the offsets asked for: every
\* offset into the longest content and two past its end.
Contents == UNION {[1..n -> {10, 120}] : n \in 0..MaxContent}

\* Documents of at most MaxLine lines, of newline bytes and bytes "x".
Documents == UNION {[1..n -> {10, 120}] : n \in 0..(MaxLine - 1)}

\* line := offsetToLine(lineOffsets, offset), for any offset.
Locate ==
    /\ \E off \in 0..(MaxContent + 2) :
          /\ offset' = off
          /\ line' = offsetToLine(buildLineOffsets(data), off)
    /\ UNCHANGED <<vocab, pstate, m, elementStack, currentComponent,
                   currentIntentFilter, data, nstart, openElements,
                   closedComponents>>

NextLocate == Locate /\ UNCHANGED <<runVars, valVars, auxVars>>

NextParse ==
    /\ \/ TokenStart
       \/ TokenEnd
       \/ TokenEOF
       \/ TokenError
    /\ UNCHANGED <<runVars, valVars, auxVars>>

\* ------------------------------------------------------------------------
\* manifest: the Validator (rules and validators)
\* ------------------------------------------------------------------------
\* The strings of the rules are the bytes of their text.
\* "android.permission."
AndroidPermission ==
    <<97, 110, 100, 114, 111, 105, 100, 46, 112, 101, 114, 109, 105, 115, 115, 105, 111, 110, 46>>

\* "android.permission.ACCESS_BACKGROUND_LOCATION"
PermissionAccessBackgroundLocation == AndroidPermission \o
    <<65, 67, 67, 69, 83, 83, 95, 66, 65, 67, 75, 71, 82, 79, 85, 78, 68, 95, 76, 79, 67, 65, 84, 73, 79, 78>>

\* "android.permission.MANAGE_EXTERNAL_STORAGE"
PermissionManageExternalStorage == AndroidPermission \o
    <<77, 65, 78, 65, 71, 69, 95, 69, 88, 84, 69, 82, 78, 65, 76, 95, 83, 84, 79, 82, 65, 71, 69>>

\* "android.permission.READ_CALL_LOG"
PermissionReadCallLog == AndroidPermission \o
    <<82, 69, 65, 68, 95, 67, 65, 76, 76, 95, 76, 79, 71>>

\* "android.permission.READ_SMS"
PermissionReadSms == AndroidPermission \o
    <<82, 69, 65, 68, 95, 83, 77, 83>>

\* "android.permission.RECEIVE_SMS"
PermissionReceiveSms == AndroidPermission \o
    <<82, 69, 67, 69, 73, 86, 69, 95, 83, 77, 83>>

\* "android.permission.INTERNET"
PermissionInternet == AndroidPermission \o
    <<73, 78, 84, 69, 82, 78, 69, 84>>

\* The rule ids "SDK001", "MV001", "MV002", "MV004", "MC001".
RuleTargetSDK == <<83, 68, 75, 48, 48, 49>>
RuleExportedComponent == <<77, 86, 48, 48, 49>>
RuleLauncherActivity == <<77, 86, 48, 48, 50>>
RuleCleartextTraffic == <<77, 86, 48, 48, 52>>
RuleComponentSecurity == <<77, 67, 48, 48, 49>>

\* The rule ids of the permission rules, "DP001" to "DP007": RuleDangerousPerm,
\* RuleLocationPerm, RuleCameraPerm, RuleContactsPerm, RuleStoragePerm,
\* RulePhonePerm, RuleCalendarPerm.
RulePerm ==
    [Dangerous |-> <<68, 80, 48, 48, 49>>, Location |-> <<68, 80, 48, 48, 50>>,
     Camera |-> <<68, 80, 48, 48, 51>>, Contacts |-> <<68, 80, 48, 48, 52>>,
     Storage |-> <<68, 80, 48, 48, 53>>, Phone |-> <<68, 80, 48, 48, 54>>,
     Calendar |-> <<68, 80, 48, 48, 55>>]

\* "AndroidManifest.xml", the filePath of the validator tests' models.
ManifestPath ==
    <<65, 110, 100, 114, 111, 105, 100, 77, 97, 110, 105, 102, 101, 115, 116, 46, 120, 109, 108>>

\* The dangerousPermissions map: a row for each key.
dangerousPermissions ==
    {\* "android.permission.ACCESS_FINE_LOCATION"
     [Name |-> AndroidPermission \o
                 <<65, 67, 67, 69, 83, 83, 95, 70, 73, 78, 69, 95, 76, 79, 67, 65, 84, 73, 79, 78>>,
      RuleID |-> RulePerm.Location, Category |-> "Location"],
     \* "android.permission.ACCESS_COARSE_LOCATION"
     [Name |-> AndroidPermission \o
                 <<65, 67, 67, 69, 83, 83, 95, 67, 79, 65, 82, 83, 69, 95, 76, 79, 67, 65, 84, 73, 79, 78>>,
      RuleID |-> RulePerm.Location, Category |-> "Location"],
     \* "android.permission.ACCESS_BACKGROUND_LOCATION"
     [Name |-> PermissionAccessBackgroundLocation,
      RuleID |-> RulePerm.Location, Category |-> "Location"],
     \* "android.permission.CAMERA"
     [Name |-> AndroidPermission \o
                 <<67, 65, 77, 69, 82, 65>>,
      RuleID |-> RulePerm.Camera, Category |-> "Camera"],
     \* "android.permission.READ_CONTACTS"
     [Name |-> AndroidPermission \o
                 <<82, 69, 65, 68, 95, 67, 79, 78, 84, 65, 67, 84, 83>>,
      RuleID |-> RulePerm.Contacts, Category |-> "Contacts"],
     \* "android.permission.WRITE_CONTACTS"
     [Name |-> AndroidPermission \o
                 <<87, 82, 73, 84, 69, 95, 67, 79, 78, 84, 65, 67, 84, 83>>,
      RuleID |-> RulePerm.Contacts, Category |-> "Contacts"],
     \* "android.permission.READ_EXTERNAL_STORAGE"
     [Name |-> AndroidPermission \o
                 <<82, 69, 65, 68, 95, 69, 88, 84, 69, 82, 78, 65, 76, 95, 83, 84, 79, 82, 65, 71, 69>>,
      RuleID |-> RulePerm.Storage, Category |-> "Storage"],
     \* "android.permission.WRITE_EXTERNAL_STORAGE"
     [Name |-> AndroidPermission \o
                 <<87, 82, 73, 84, 69, 95, 69, 88, 84, 69, 82, 78, 65, 76, 95, 83, 84, 79, 82, 65, 71, 69>>,
      RuleID |-> RulePerm.Storage, Category |-> "Storage"],
     \* "android.permission.MANAGE_EXTERNAL_STORAGE"
     [Name |-> PermissionManageExternalStorage,
      RuleID |-> RulePerm.Storage, Category |-> "Storage"],
     \* "android.permission.READ_PHONE_STATE"
     [Name |-> AndroidPermission \o
                 <<82, 69, 65, 68, 95, 80, 72, 79, 78, 69, 95, 83, 84, 65, 84, 69>>,
      RuleID |-> RulePerm.Phone, Category |-> "Phone"],
     \* "android.permission.CALL_PHONE"
     [Name |-> AndroidPermission \o
                 <<67, 65, 76, 76, 95, 80, 72, 79, 78, 69>>,
      RuleID |-> RulePerm.Phone, Category |-> "Phone"],
     \* "android.permission.READ_CALL_LOG"
     [Name |-> PermissionReadCallLog,
      RuleID |-> RulePerm.Phone, Category |-> "Phone"],
     \* "android.permission.READ_CALENDAR"
     [Name |-> AndroidPermission \o
                 <<82, 69, 65, 68, 95, 67, 65, 76, 69, 78, 68, 65, 82>>,
      RuleID |-> RulePerm.Calendar, Category |-> "Calendar"],
     \* "android.permission.WRITE_CALENDAR"
     [Name |-> AndroidPermission \o
                 <<87, 82, 73, 84, 69, 95, 67, 65, 76, 69, 78, 68, 65, 82>>,
      RuleID |-> RulePerm.Calendar, Category |-> "Calendar"],
     \* "android.permission.RECORD_AUDIO"
     [Name |-> AndroidPermission \o
                 <<82, 69, 67, 79, 82, 68, 95, 65, 85, 68, 73, 79>>,
      RuleID |-> RulePerm.Dangerous, Category |-> "Microphone"],
     \* "android.permission.READ_SMS"
     [Name |-> PermissionReadSms,
      RuleID |-> RulePerm.Dangerous, Category |-> "SMS"],
     \* "android.permission.SEND_SMS"
     [Name |-> PermissionSendSms,
      RuleID |-> RulePerm.Dangerous, Category |-> "SMS"],
     \* "android.permission.RECEIVE_SMS"
     [Name |-> PermissionReceiveSms,
      RuleID |-> RulePerm.Dangerous, Category |-> "SMS"],
     \* "android.permission.BODY_SENSORS"
     [Name |-> AndroidPermission \o
                 <<66, 79, 68, 89, 95, 83, 69, 78, 83, 79, 82, 83>>,
      RuleID |-> RulePerm.Dangerous, Category |-> "Sensors"]}

MinTargetSDKVersion == 35

isDangerous(name) == \E row \in dangerousPermissions : row.Name = name
infoOf(name) == CHOOSE row \in dangerousPermissions : row.Name = name

\* A severity rule that knows the SMS and call-log permissions only.
severityForPermissionSmsOnly(permName) ==
    IF permName \in {PermissionReadSms, PermissionSendSms, PermissionReceiveSms,
                     PermissionReadCallLog}
    THEN SeverityCritical
    ELSE SeverityWarning

severityForPermission(permName) ==
    IF permName \in {PermissionReadSms, PermissionSendSms, PermissionReceiveSms,
                     PermissionReadCallLog, PermissionManageExternalStorage,
                     PermissionAccessBackgroundLocation}
    THEN SeverityCritical
    ELSE SeverityWarning

\* fmt.Sprintf("%d", n).
FormatInt(n) == IF n < 0 THEN <<45>> \o Itoa(0 - n) ELSE Itoa(n)

\* The text of a finding (Title, Description, Suggestion): the format of
\* its title, the component kind or permission category, and the name or
\* number, as bytes, its texts are formatted with.
Text(format, kind, arg) == <<format, kind, arg>>

\* A target-version check that lets an unset version through.
CheckTargetSDKUnsetPasses(mm) ==
    IF mm.TargetSdkVersion # 0 /\ mm.TargetSdkVersion < MinTargetSDKVersion
    THEN <<Finding(RuleTargetSDK,
                   Text("targetSdkVersion %d is below required minimum", "",
                        FormatInt(mm.TargetSdkVersion)),
                   SeverityCritical, mm.filePath, 0, 0)>>
    ELSE <<>>

CheckTargetSDK(mm) ==
    IF mm.TargetSdkVersion = 0
    THEN <<Finding(RuleTargetSDK, Text("Missing targetSdkVersion", "", <<>>),
                   SeverityCritical, mm.filePath, 0, 0)>>
    ELSE IF mm.TargetSdkVersion < MinTargetSDKVersion
    THEN <<Finding(RuleTargetSDK,
                   Text("targetSdkVersion %d is below required minimum", "",
                        FormatInt(mm.TargetSdkVersion)),
                   SeverityCritical, mm.filePath, 0, 0)>>
    ELSE <<>>

\* The loop of CheckDangerousPermissions over perms.
RECURSIVE DangerousLoop(_, _)
DangerousLoop(file, perms) ==
    IF perms = <<>> THEN <<>>
    ELSE LET perm == Head(perms)
         IN  (IF ~isDangerous(perm.Name) THEN <<>>
              ELSE <<Finding(infoOf(perm.Name).RuleID,
                             Text("Dangerous permission: %s",
                                  infoOf(perm.Name).Category,
                                  perm.Name),
                             severityForPermission(perm.Name),
                             file, perm.Line, 0)>>)
             \o DangerousLoop(file, Tail(perms))

CheckDangerousPermissions(mm) == DangerousLoop(mm.filePath, mm.Permissions)

\* A checkComponent without the early return for a component that has no
\* intent filter.
checkComponentWithoutFilters(file, name, kind, exported, filters, ln) ==
    IF exported = <<>>
    THEN <<Finding(RuleExportedComponent,
                   Text("%s missing android:exported", kind, name),
                   SeverityError, file, ln, 0)>>
    ELSE IF exported[1]
    THEN <<Finding(RuleComponentSecurity,
                   Text("Exported %s: %s", kind, name),
                   SeverityInfo, file, ln, 0)>>
    ELSE <<>>

\* The closure checkComponent of CheckExportedComponents: what one call
\* appends to findings.
checkComponent(file, name, kind, exported, filters, ln) ==
    IF Len(filters) = 0 THEN <<>>
    ELSE IF exported = <<>>
    THEN <<Finding(RuleExportedComponent,
                   Text("%s missing android:exported", kind, name),
                   SeverityError, file, ln, 0)>>
    ELSE IF exported[1]
    THEN <<Finding(RuleComponentSecurity,
                   Text("Exported %s: %s", kind, name),
                   SeverityInfo, file, ln, 0)>>
    ELSE <<>>

\* One of the four loops of CheckExportedComponents.
RECURSIVE ComponentLoop(_, _, _)
ComponentLoop(file, kind, comps) ==
    IF comps = <<>> THEN <<>>
    ELSE LET c == Head(comps)
         IN  checkComponent(file, c.Name, kind, c.Exported, c.IntentFilters,
                            c.Line)
             \o ComponentLoop(file, kind, Tail(comps))

CheckExportedComponents(mm) ==
    ComponentLoop(mm.filePath, "Activity", mm.Activities)
    \o ComponentLoop(mm.filePath, "Service", mm.Services)
    \o ComponentLoop(mm.filePath, "Receiver", mm.Receivers)
    \o ComponentLoop(mm.filePath, "Provider", mm.Providers)

\* A launcher test that looks for MAIN and LAUNCHER anywhere among the
\* activity's filters.
isLauncherActivityAcrossFilters(a) ==
    /\ \E i \in DOMAIN a.IntentFilters :
          \E j \in DOMAIN a.IntentFilters[i].Actions :
              a.IntentFilters[i].Actions[j] = ActionMain
    /\ \E i \in DOMAIN a.IntentFilters :
          \E j \in DOMAIN a.IntentFilters[i].Categories :
              a.IntentFilters[i].Categories[j] = CategoryLauncher

\* parser.go: isLauncherActivity and HasLauncherActivity.
isLauncherActivity(a) ==
    \E i \in DOMAIN a.IntentFilters :
        LET f == a.IntentFilters[i]
            hasMain == \E j \in DOMAIN f.Actions : f.Actions[j] = ActionMain
            hasLauncher ==
                \E j \in DOMAIN f.Categories : f.Categories[j] = CategoryLauncher
        IN  hasMain /\ hasLauncher

\* A launcher test over the components of all four kinds.
HasLauncherAnyKind(mm) ==
    \E c \in Range(mm.Activities) \cup Range(mm.Services)
            \cup Range(mm.Receivers) \cup Range(mm.Providers) :
        isLauncherActivity(c)

HasLauncherActivity(mm) ==
    \E i \in DOMAIN mm.Activities : isLauncherActivity(mm.Activities[i])

CheckLauncherActivity(mm) ==
    IF HasLauncherActivity(mm) THEN <<>>
    ELSE <<Finding(RuleLauncherActivity,
                   Text("No launcher activity found", "", <<>>),
                   SeverityWarning, mm.filePath, 0, 0)>>

\* A network-policy check that warns for every target version below 28,
\* the unset one included.
CheckCleartextTrafficUnsetWarns(mm) ==
    IF ~mm.HasCleartext
    THEN IF mm.TargetSdkVersion < 28
         THEN <<Finding(RuleCleartextTraffic,
                        Text("Cleartext traffic may be enabled by default", "",
                             <<>>),
                        SeverityWarning, mm.filePath, 0, 0)>>
         ELSE <<>>
    ELSE IF mm.UsesCleartext
    THEN <<Finding(RuleCleartextTraffic,
                   Text("Cleartext traffic explicitly enabled", "", <<>>),
                   SeverityError, mm.filePath, 0, 0)>>
    ELSE <<>>

CheckCleartextTraffic(mm) ==
    IF ~mm.HasCleartext
    THEN IF mm.TargetSdkVersion > 0 /\ mm.TargetSdkVersion < 28
         THEN <<Finding(RuleCleartextTraffic,
                        Text("Cleartext traffic may be enabled by default", "",
                             <<>>),
                        SeverityWarning, mm.filePath, 0, 0)>>
         ELSE <<>>
    ELSE IF mm.UsesCleartext
    THEN <<Finding(RuleCleartextTraffic,
                   Text("Cleartext traffic explicitly enabled", "", <<>>),
                   SeverityError, mm.filePath, 0, 0)>>
    ELSE <<>>

\* An aggregate that runs the network-policy check before the entry-point
\* check.
ValidateAllCleartextFirst(mm) ==
    CheckTargetSDK(mm)
    \o CheckDangerousPermissions(mm)
    \o CheckExportedComponents(mm)
    \o CheckCleartextTraffic(mm)
    \o CheckLauncherActivity(mm)

ValidateAll(mm) ==
    CheckTargetSDK(mm)
    \o CheckDangerousPermissions(mm)
    \o CheckExportedComponents(mm)
    \o CheckLauncherActivity(mm)
    \o CheckCleartextTraffic(mm)

\* The models the validators are called on.  The scalar settings: every
\* target version from -1 (strconv.Atoi reads a signed number) up to
\* MaxTargetSdkVersion, and the usesCleartextTraffic attribute absent, true
\* or false.
CleartextSettings == {<<FALSE, FALSE>>, <<TRUE, TRUE>>, <<TRUE, FALSE>>}

SettingsModels ==
    {[NewManifest EXCEPT !.filePath = ManifestPath,
                         !.TargetSdkVersion = t,
                         !.HasCleartext = c[1],
                         !.UsesCleartext = c[2]] :
        t \in (0 - 1)..MaxTargetSdkVersion, c \in CleartextSettings}

\* The declared permissions: up to MaxPermissions declarations, each of a
\* name of the table or of android.permission.INTERNET, on a line up to
\* MaxLine.
Declarations ==
    {[Name |-> n, MaxSdk |-> 0, Line |-> ln, Required |-> TRUE] :
        n \in {row.Name : row \in dangerousPermissions} \cup {PermissionInternet},
        ln \in 1..MaxLine}

PermissionLists == UNION {[1..k -> Declarations] : k \in 0..MaxPermissions}

PermissionModels ==
    {[NewManifest EXCEPT !.filePath = ManifestPath,
                         !.TargetSdkVersion = MinTargetSDKVersion,
                         !.Permissions = ps] : ps \in PermissionLists}

\* The components: up to MaxComponents components, each of one of the four
\* kinds, with exported nil, true or false, on line 1 or MaxLine and
\* with no intent filter, one filter holding MAIN and LAUNCHER, or two
\* filters holding MAIN and LAUNCHER apart.
LauncherFilter ==
    [Actions |-> <<ActionMain>>, Categories |-> <<CategoryLauncher>>, Line |-> 1]

MainFilter == [Actions |-> <<ActionMain>>, Categories |-> <<>>, Line |-> 1]

\* Its action is "android.intent.action.VIEW".
CategoryFilter ==
    [Actions |-> <<<<97, 110, 100, 114, 111, 105, 100, 46, 105, 110, 116, 101, 110, 116, 46, 97, 99, 116, 105, 111, 110, 46, 86, 73, 69, 87>>>>,
     Categories |-> <<CategoryLauncher>>, Line |-> 1]

FilterLists == {<<>>, <<LauncherFilter>>, <<MainFilter, CategoryFilter>>}

ComponentRecords ==
    {[Name |-> NameA, Exported |-> e, IntentFilters |-> fs, Line |-> ln] :
        e \in {<<>>, <<TRUE>>, <<FALSE>>}, fs \in FilterLists,
        ln \in {1, MaxLine}}

ComponentKinds == {"activity", "service", "receiver", "provider"}

RECURSIVE Place(_, _)
Place(mm, placed) ==
    IF placed = <<>> THEN mm
    ELSE Place(AppendComponent(mm, Head(placed)[1], Head(placed)[2]),
               Tail(placed))

ComponentModels ==
    {Place([NewManifest EXCEPT !.filePath = ManifestPath,
                               !.TargetSdkVersion = MinTargetSDKVersion],
           placed) :
        placed \in UNION {[1..k -> ComponentKinds \X ComponentRecords] :
                             k \in 0..MaxComponents}}

\* The models of the validator tests and of the spec's scenarios: the target
\* version unset, 33 or the required minimum, no permission, INTERNET on
\* line 5, SEND_SMS on line 6 or both, each cleartext setting, and no
\* component or one component of one kind.
SendSmsAtLine6 ==
    [Name |-> PermissionSendSms, MaxSdk |-> 0, Line |-> 6, Required |-> TRUE]

ScenarioModels ==
    {Place([NewManifest EXCEPT !.filePath = ManifestPath,
                               !.TargetSdkVersion = t,
                               !.HasCleartext = c[1],
                               !.UsesCleartext = c[2],
                               !.Permissions = ps],
           placed) :
        t \in {0, 33, MinTargetSDKVersion}, c \in CleartextSettings,
        ps \in {<<>>, <<SendSmsAtLine6>>,
                <<[SendSmsAtLine6 EXCEPT !.Name = PermissionInternet,
                                         !.Line = 5]>>,
                <<[SendSmsAtLine6 EXCEPT !.Name = PermissionInternet,
                                         !.Line = 5], SendSmsAtLine6>>},
        placed \in {<<>>} \cup {<<<<k, r>>>> : k \in ComponentKinds,
                                              r \in ComponentRecords}}

\* NewValidator(mm), no method called yet.
ValidateStart(mm) ==
    /\ manifest = mm
    /\ method = "none"
    /\ ret = <<>>
    /\ scan = <<>>

\* A call of one method of the Validator.
Call(name, findings) ==
    /\ method = "none"
    /\ scan = <<>>
    /\ method' = name
    /\ ret' = findings
    /\ UNCHANGED <<manifest, scan>>

CallCheckTargetSDK == Call("CheckTargetSDK", CheckTargetSDK(manifest))
CallCheckDangerousPermissions ==
    Call("CheckDangerousPermissions", CheckDangerousPermissions(manifest))
CallCheckExportedComponents ==
    Call("CheckExportedComponents", CheckExportedComponents(manifest))
CallCheckLauncherActivity ==
    Call("CheckLauncherActivity", CheckLauncherActivity(manifest))
CallCheckCleartextTraffic ==
    Call("CheckCleartextTraffic", CheckCleartextTraffic(manifest))
CallValidateAll == Call("ValidateAll", ValidateAll(manifest))

NextValidate ==
    /\ \/ CallCheckTargetSDK
       \/ CallCheckDangerousPermissions
       \/ CallCheckExportedComponents
       \/ CallCheckLauncherActivity
       \/ CallCheckCleartextTraffic
       \/ CallValidateAll
    /\ UNCHANGED <<runVars, parseVars, auxVars>>

\* ManifestScanner.Run once FindAndParse has returned an error: the result
\* carries the error and no validator is called.
RunReturnsError ==
    /\ pstate = "error"
    /\ scan = <<>>
    /\ scan' = <<ManifestScannerRun(<<>>, TRUE)>>
    /\ UNCHANGED <<manifest, method, ret>>
    /\ UNCHANGED <<runVars, parseVars, auxVars>>

\* ManifestScanner.Run once FindAndParse has returned the model (ParseFile
\* has set its filePath): ValidateAll is called on it.
RunValidates ==
    /\ pstate = "done"
    /\ scan = <<>>
    /\ manifest' = [m EXCEPT !.filePath = ManifestPath]
    /\ method' = "ValidateAll"
    /\ ret' = ValidateAll(manifest')
    /\ scan' = <<ManifestScannerRun(ret', FALSE)>>
    /\ UNCHANGED <<runVars, parseVars, auxVars>>

NextScan ==
    \/ NextParse
    \/ RunReturnsError
    \/ RunValidates

\* ------------------------------------------------------------------------
\* Properties of Parse
\* ------------------------------------------------------------------------
\* The records of a kind in the model, and the closed elements of a kind,
\* as (name, exported, line).
RecordsOf(kind) ==
    IF kind = "activity" THEN m.Activities
    ELSE IF kind = "service" THEN m.Services
    ELSE IF kind = "receiver" THEN m.Receivers
    ELSE m.Providers

RECURSIVE ClosedOf(_, _)
ClosedOf(kind, closed) ==
    IF closed = <<>> THEN <<>>
    ELSE LET e == Head(closed)
             pa == parseComponentAttrs(e.tok.Attr)
         IN  (IF KindOf(e.tok.Local) = kind
              THEN <<[Name |-> pa.name, Exported |-> pa.exported, Line |-> e.line]>>
              ELSE <<>>) \o ClosedOf(kind, Tail(closed))

Summary(recs) ==
    [i \in DOMAIN recs |->
        [Name |-> recs[i].Name, Exported |-> recs[i].Exported, Line |-> recs[i].Line]]

Kinds == {"activity", "service", "receiver", "provider"}

\* C10: when Parse returns the model, each kind's records are, one for one
\* and in the order of the end tokens, the component elements of that kind
\* whose start and end token were read, with their name, exported state
\* and line.
C10_EveryClosedComponentRecorded ==
    pstate = "done" =>
        \A k \in Kinds : Summary(RecordsOf(k)) = ClosedOf(k, closedComponents)

\* The exported attribute as the start token wrote it: whether an attribute
\* of that name is among the token's attributes, and its text.
HasExportedAttr(attrs) == \E i \in DOMAIN attrs : attrs[i].Name = "exported"

ExportedText(attrs) ==
    attrs[CHOOSE i \in DOMAIN attrs : attrs[i].Name = "exported"].Value

NameText(attrs) ==
    attrs[CHOOSE i \in DOMAIN attrs : attrs[i].Name = "name"].Value

\* "true" in any mix of upper and lower case.
IsTrueText(v) ==
    /\ Len(v) = 4
    /\ v[1] \in {116, 84}
    /\ v[2] \in {114, 82}
    /\ v[3] \in {117, 85}
    /\ v[4] \in {101, 69}

\* The tri-state a start token's attributes call for.
ExportedAsWritten(exported, attrs) ==
    IF ~HasExportedAttr(attrs) THEN exported = <<>>
    ELSE IF IsTrueText(ExportedText(attrs)) THEN exported = <<TRUE>>
    ELSE exported = <<FALSE>>

\* The start token a record was made from: a closed element of the
\* record's kind with the record's name and line.
StartTokensOf(k, r) ==
    {closedComponents[i].tok.Attr : i \in
        {j \in DOMAIN closedComponents :
            /\ KindOf(closedComponents[j].tok.Local) = k
            /\ NameText(closedComponents[j].tok.Attr) = r.Name
            /\ closedComponents[j].line = r.Line}}

\* C11: every component record of the model has the exported tri-state its
\* start token wrote: nil exactly when the token has no exported attribute,
\* true when the attribute's text is "true" in any case, false for any
\* other text.
C11_ExportedAsWritten ==
    \A k \in Kinds : \A i \in DOMAIN RecordsOf(k) :
        /\ StartTokensOf(k, RecordsOf(k)[i]) # {}
        /\ \A attrs \in StartTokensOf(k, RecordsOf(k)[i]) :
              ExportedAsWritten(RecordsOf(k)[i].Exported, attrs)

AllRecords == UNION {Range(RecordsOf(k)) : k \in Kinds}

\* Parse has returned a model with a component of each tri-state, the
\* exported one written in upper case.
C11_Witness ==
    /\ pstate = "done"
    /\ \E r \in AllRecords : r.Name = <<77>> /\ r.Exported = <<>>
    /\ \E r \in AllRecords : r.Name = <<85>> /\ r.Exported = <<TRUE>>
    /\ \E r \in AllRecords : r.Name = <<79>> /\ r.Exported = <<FALSE>>

\* The element names the start switch and the end switch of Parse have a
\* case for.
StartCases ==
    {"manifest", "uses-sdk", "application", "uses-permission", "activity",
     "activity-alias", "service", "receiver", "provider", "intent-filter",
     "action", "category"}

EndCases ==
    {"intent-filter", "activity", "activity-alias", "service", "receiver",
     "provider"}

ComponentEndCases ==
    {"activity", "activity-alias", "service", "receiver", "provider"}

KindOfEnd(local) == IF local = "activity-alias" THEN "activity" ELSE local

\* The step reads a start token Parse has no case for.
ReadsUnknownStart ==
    /\ Len(openElements') = Len(openElements) + 1
    /\ openElements'[Len(openElements')].tok.Local \notin StartCases

\* The step reads an end token Parse has no case for, or a component's end
\* token while no component, or one of another kind, is open.
ReadsUnmatchedEnd ==
    /\ Len(openElements') = Len(openElements) - 1
    /\ LET local == openElements[Len(openElements)].tok.Local
       IN  \/ local \notin EndCases
           \/ /\ local \in ComponentEndCases
              /\ \/ currentComponent = <<>>
                 \/ currentComponent[1].kind # KindOfEnd(local)

\* C12: a start or end token Parse has no case for, and a component's end
\* token that finds no open component of its kind, leaves Parse scanning
\* and leaves the model, the open component and the open intent filter as
\* they were.
C12_IgnoredTokensChangeNothing ==
    [][(ReadsUnknownStart \/ ReadsUnmatchedEnd) =>
          /\ pstate' = "scanning"
          /\ m' = m
          /\ currentComponent' = currentComponent
          /\ currentIntentFilter' = currentIntentFilter]_vars

\* A service inside an activity has been read to its end, the activity's
\* end token has found no component open, and an unknown element has been
\* opened after that.
C12_Witness ==
    /\ pstate = "scanning"
    /\ Len(closedComponents) = 2
    /\ closedComponents[1].tok.Local = "service"
    /\ closedComponents[2].tok.Local = "activity"
    /\ m.Activities = <<>>
    /\ Len(m.Services) = 1
    /\ Len(openElements) = 1
    /\ openElements[1].tok.Local = "meta-data"
    /\ elementStack = <<"meta-data">>
    /\ currentComponent = <<>>

\* ------------------------------------------------------------------------
\* Properties of ManifestScanner.Run
\* ------------------------------------------------------------------------
\* ManifestScanner.Run has returned for a document the tokenizer gave up on.
RanOnMalformed == pstate = "error" /\ scan # <<>>

\* C13 as claimed: for a malformed document the manifest checker still
\* validates a model, so that its outcome holds findings (the missing
\* target version among them when none was read) and not only an error.
C13_FindingsOnMalformed_AsClaimed ==
    RanOnMalformed =>
        /\ method = "ValidateAll"
        /\ scan[1].Findings # <<>>
        /\ m.TargetSdkVersion = 0 =>
              \E k \in DOMAIN scan[1].Findings :
                  scan[1].Findings[k].CheckID = <<83, 68, 75, 48, 48, 49>>

\* C13: for a malformed document Parse returns the tokenizer's error and
\* no model; the manifest checker calls no validator and returns a result
\* with Passed false, the error in Err and no finding, together with the
\* error.
C13_ErrorOnMalformed ==
    RanOnMalformed =>
        /\ method = "none"
        /\ ~scan[1].nilcr
        /\ ~scan[1].Passed
        /\ scan[1].Findings = <<>>
        /\ scan[1].Err
        /\ scan[1].err

\* ManifestScanner.Run has returned its error for a document that broke
\* off after the manifest start token, before any target version.
C13_Witness ==
    /\ RanOnMalformed
    /\ m.Package = NameA
    /\ m.TargetSdkVersion = 0
    /\ openElements # <<>>
    /\ scan[1].Err
    /\ scan[1].Findings = <<>>

\* ------------------------------------------------------------------------
\* Properties of the Validator
\* ------------------------------------------------------------------------
Sdk001 == <<83, 68, 75, 48, 48, 49>>

\* C18: CheckTargetSDK returns exactly one Critical finding with id SDK001
\* when the target version is 0 or less than 35, and no finding when it is
\* 35 or more.
C18_TargetSDK ==
    method = "CheckTargetSDK" =>
        IF manifest.TargetSdkVersion = 0 \/ manifest.TargetSdkVersion < 35
        THEN /\ Len(ret) = 1
             /\ ret[1].Severity = SeverityCritical
             /\ ret[1].CheckID = Sdk001
        ELSE ret = <<>>

\* CheckTargetSDK has reported the unset target version.
C18_Witness ==
    /\ method = "CheckTargetSDK"
    /\ manifest.TargetSdkVersion = 0
    /\ Len(ret) = 1
    /\ ret[1].Severity = SeverityCritical

\* The names of the dangerous-permission table and those of them that are
\* Critical.
TableNames == {row.Name : row \in dangerousPermissions}

CriticalNames ==
    {PermissionReadSms, PermissionSendSms, PermissionReceiveSms,
     PermissionReadCallLog, PermissionManageExternalStorage,
     PermissionAccessBackgroundLocation}

InTable(perm) == perm.Name \in TableNames

DeclaredDangerous == SelectSeq(manifest.Permissions, InTable)

AllComponents ==
    manifest.Activities \o manifest.Services \o manifest.Receivers
    \o manifest.Providers

Flagged(c) == Len(c.IntentFilters) > 0 /\ c.Exported # <<FALSE>>

FlaggedComponents == SelectSeq(AllComponents, Flagged)

Mv001 == <<77, 86, 48, 48, 49>>
Mc001 == <<77, 67, 48, 48, 49>>

\* C14: CheckExportedComponents returns nothing for a component without
\* intent filters or explicitly not exported, and for each other component,
\* of whichever kind, exactly one finding: Error MV001 when exported is
\* unspecified, Info MC001 when it is explicitly exported.
C14_ExportedComponents ==
    method = "CheckExportedComponents" =>
        /\ Len(ret) = Len(FlaggedComponents)
        /\ \A k \in DOMAIN ret :
              /\ ret[k].Location.Line = FlaggedComponents[k].Line
              /\ IF FlaggedComponents[k].Exported = <<>>
                 THEN ret[k].Severity = SeverityError /\ ret[k].CheckID = Mv001
                 ELSE ret[k].Severity = SeverityInfo /\ ret[k].CheckID = Mc001

\* CheckExportedComponents has passed over a receiver without intent
\* filters and without exported, and reported a provider with a filter and
\* without exported.
C14_Witness ==
    /\ method = "CheckExportedComponents"
    /\ Len(manifest.Receivers) = 1
    /\ manifest.Receivers[1].Exported = <<>>
    /\ manifest.Receivers[1].IntentFilters = <<>>
    /\ Len(manifest.Providers) = 1
    /\ manifest.Providers[1].Exported = <<>>
    /\ Len(manifest.Providers[1].IntentFilters) = 1
    /\ Len(ret) = 1
    /\ ret[1].Severity = SeverityError

\* A component with one intent filter that holds both the MAIN action and
\* the LAUNCHER category.
HasEntryFilter(c) ==
    \E i \in DOMAIN c.IntentFilters :
        /\ ActionMain \in Range(c.IntentFilters[i].Actions)
        /\ CategoryLauncher \in Range(c.IntentFilters[i].Categories)

OneWarning == Len(ret) = 1 /\ ret[1].Severity = SeverityWarning

\* C15 as claimed: CheckLauncherActivity returns its one Warning exactly
\* when no component of any of the four kinds has an intent filter holding
\* both MAIN and LAUNCHER.
C15_AnyKind_AsClaimed ==
    method = "CheckLauncherActivity" =>
        /\ ret = <<>> \/ OneWarning
        /\ OneWarning <=> ~\E c \in Range(AllComponents) : HasEntryFilter(c)

\* C15: CheckLauncherActivity returns its one Warning exactly when no
\* activity has an intent filter holding both MAIN and LAUNCHER; a service,
\* receiver or provider with such a filter does not count, and neither
\* does MAIN in one filter and LAUNCHER in another.
C15_ActivitiesOnly ==
    method = "CheckLauncherActivity" =>
        /\ ret = <<>> \/ OneWarning
        /\ OneWarning <=> ~\E c \in Range(manifest.Activities) : HasEntryFilter(c)

\* CheckLauncherActivity has returned its Warning for a model whose
\* activity holds MAIN and LAUNCHER in two filters and whose service holds
\* both in one.
C15_Witness ==
    /\ method = "CheckLauncherActivity"
    /\ Len(manifest.Activities) = 1
    /\ manifest.Activities[1].IntentFilters = <<MainFilter, CategoryFilter>>
    /\ Len(manifest.Services) = 1
    /\ manifest.Services[1].IntentFilters = <<LauncherFilter>>
    /\ OneWarning

OneError == Len(ret) = 1 /\ ret[1].Severity = SeverityError

\* C16 as claimed: CheckCleartextTraffic returns one Error when the
\* attribute is explicitly true, nothing when it is explicitly false, and
\* with the attribute absent one Warning for every target version below 28
\* and nothing from 28 on.
C16_BelowThreshold_AsClaimed ==
    method = "CheckCleartextTraffic" =>
        IF manifest.HasCleartext
        THEN IF manifest.UsesCleartext THEN OneError ELSE ret = <<>>
        ELSE IF manifest.TargetSdkVersion < 28 THEN OneWarning ELSE ret = <<>>

\* C16: CheckCleartextTraffic returns one Error when the attribute is
\* explicitly true, nothing when it is explicitly false, and with the
\* attribute absent one Warning for a target version from 1 to 27 and
\* nothing for an unset (0) or negative one and from 28 on.
C16_Cleartext ==
    method = "CheckCleartextTraffic" =>
        IF manifest.HasCleartext
        THEN IF manifest.UsesCleartext THEN OneError ELSE ret = <<>>
        ELSE IF manifest.TargetSdkVersion >= 1 /\ manifest.TargetSdkVersion <= 27
             THEN OneWarning
             ELSE ret = <<>>

\* CheckCleartextTraffic has returned nothing for a model without the
\* attribute and without a target version.
C16_Witness ==
    /\ method = "CheckCleartextTraffic"
    /\ ~manifest.HasCleartext
    /\ manifest.TargetSdkVersion = 0
    /\ ret = <<>>

\* The validator a finding comes from, by its rule id: 1 target-version
\* (SDK001), 2 dangerous-capability (DP001 .. DP007), 3 exported-component
\* (MV001, MC001), 4 entry-point (MV002), 5 network-policy (MV004).
Mv002 == <<77, 86, 48, 48, 50>>
Mv004 == <<77, 86, 48, 48, 52>>
DpIds == {<<68, 80, 48, 48, d>> : d \in 49..55}

StageOf(f) ==
    IF f.CheckID = Sdk001 THEN 1
    ELSE IF f.CheckID \in DpIds THEN 2
    ELSE IF f.CheckID \in {Mv001, Mc001} THEN 3
    ELSE IF f.CheckID = Mv002 THEN 4
    ELSE IF f.CheckID = Mv004 THEN 5
    ELSE 0

\* The number of findings each validator owes the validated model.
Owed(stage) ==
    IF stage = 1 THEN (IF manifest.TargetSdkVersion < 35 THEN 1 ELSE 0)
    ELSE IF stage = 2 THEN Len(DeclaredDangerous)
    ELSE IF stage = 3 THEN Len(FlaggedComponents)
    ELSE IF stage = 4
         THEN (IF \E c \in Range(manifest.Activities) : HasEntryFilter(c)
               THEN 0 ELSE 1)
    ELSE IF manifest.HasCleartext THEN (IF manifest.UsesCleartext THEN 1 ELSE 0)
    ELSE IF manifest.TargetSdkVersion >= 1 /\ manifest.TargetSdkVersion <= 27
         THEN 1
    ELSE 0

OwedUpTo(stage) == SumOver(1..stage, [i \in 1..5 |-> Owed(i)])

\* Scenario A: target version unset, SEND_SMS declared on line 6 and
\* nothing else, no component with an intent filter, cleartext explicitly
\* enabled.
ScenarioA ==
    /\ manifest.TargetSdkVersion = 0
    /\ manifest.Permissions = <<SendSmsAtLine6>>
    /\ \A c \in Range(AllComponents) : c.IntentFilters = <<>>
    /\ manifest.HasCleartext
    /\ manifest.UsesCleartext

SeveritySeq(fs) == [k \in DOMAIN fs |-> fs[k].Severity]

\* C19: ValidateAll returns the findings of the target-version, dangerous-
\* capability, exported-component, entry-point and network-policy
\* validators, as many as each owes and in that order; for scenario A these
\* are exactly four: Critical target-version, Critical dangerous-capability
\* on line 6, Warning entry-point, Error network-policy.
C19_ValidateAllInOrder ==
    method = "ValidateAll" =>
        /\ Len(ret) = OwedUpTo(5)
        /\ \A k \in DOMAIN ret :
              /\ StageOf(ret[k]) \in 1..5
              /\ k > OwedUpTo(StageOf(ret[k]) - 1)
              /\ k <= OwedUpTo(StageOf(ret[k]))
        /\ ScenarioA =>
              /\ SeveritySeq(ret) = <<SeverityCritical, SeverityCritical,
                                      SeverityWarning, SeverityError>>
              /\ [k \in DOMAIN ret |-> StageOf(ret[k])] = <<1, 2, 4, 5>>
              /\ ret[2].Location.Line = 6

\* ValidateAll has returned the four findings of scenario A.
C19_Witness ==
    /\ method = "ValidateAll"
    /\ ScenarioA
    /\ AllComponents = <<>>
    /\ Len(ret) = 4

\* Scenario B: target version 35, no dangerous permission, cleartext
\* absent, and one component, whose one intent filter holds MAIN and
\* LAUNCHER.
ScenarioB ==
    /\ manifest.TargetSdkVersion = 35
    /\ DeclaredDangerous = <<>>
    /\ ~manifest.HasCleartext
    /\ Len(AllComponents) = 1
    /\ AllComponents[1].IntentFilters = <<LauncherFilter>>

\* C20 as claimed: for scenario B ValidateAll returns no finding, whatever
\* the component's kind and exported state.
C20_ScenarioB_AsClaimed ==
    (method = "ValidateAll" /\ ScenarioB) => ret = <<>>

\* C20: for scenario B ValidateAll returns the exported-component finding
\* of the component (Error MV001 when exported is unspecified, Info MC001
\* when explicitly exported, none when explicitly not exported), followed
\* by the entry-point Warning MV002 unless the component is an activity; it
\* returns no finding exactly for an activity explicitly not exported.
C20_ScenarioB ==
    (method = "ValidateAll" /\ ScenarioB) =>
        /\ [k \in DOMAIN ret |-> <<ret[k].CheckID, ret[k].Severity>>] =
              (IF AllComponents[1].Exported = <<>>
               THEN <<<<Mv001, SeverityError>>>>
               ELSE IF AllComponents[1].Exported = <<TRUE>>
               THEN <<<<Mc001, SeverityInfo>>>>
               ELSE <<>>)
              \o (IF Len(manifest.Activities) = 1 THEN <<>>
                  ELSE <<<<Mv002, SeverityWarning>>>>)
        /\ ret = <<>> <=>
              /\ Len(manifest.Activities) = 1
              /\ manifest.Activities[1].Exported = <<FALSE>>

\* ValidateAll has returned the Info finding for scenario B with an
\* exported launcher activity.
C20_Witness ==
    /\ method = "ValidateAll"
    /\ ScenarioB
    /\ Len(manifest.Activities) = 1
    /\ manifest.Activities[1].Exported = <<TRUE>>
    /\ Len(ret) = 1
    /\ ret[1].Severity = SeverityInfo

\* ------------------------------------------------------------------------
\* codescan: Scanner.Run
\* ------------------------------------------------------------------------
maxConcurrency == 8

NumFiles == Len(scFiles)

\* The positions of a file's goroutine, in the order it passes them.
Positions == {"scan", "lock", "append", "unlock", "release", "done", "finished"}

\* What scanFile returns for the files of the list fs.
FileResults(fs) == {fs[i] : i \in 1..Len(fs)}

CodeScanStart(fs, walkErr) ==
    /\ scFiles = fs
    /\ scWalkErr = walkErr
    /\ scPc = "walk"
    /\ scNext = 0
    /\ scUnit = [pos \in Positions, ff \in FileResults(fs) |-> 0]
    /\ scSem = 0
    /\ scWg = 0
    /\ scMu = 0
    /\ scFindings = <<>>
    /\ scResult = <<>>

\* The projects: up to MaxFiles files, of which the first, the last, the
\* first two, all three or none hold a match; the finding of file i is on
\* line i.
ProjectFiles ==
    {[i \in 1..n |-> IF i \in hit
                      THEN <<Finding(<<67>>, 1, SeverityWarning, <<65>>, i, 0)>>
                      ELSE <<>>] :
        n \in 0..MaxFiles,
        hit \in {{}, {1}, {MaxFiles}, {1, 2}, {1, 2, MaxFiles}}}

\* utils.WalkFiles, the error return, the empty result and the return for
\* a project without source files.
ScanWalk ==
    /\ scPc = "walk"
    /\ IF scWalkErr
       THEN /\ scResult' = <<Outcome(TRUE, FALSE, <<>>, FALSE, TRUE)>>
            /\ scPc' = "returned"
       ELSE IF NumFiles = 0
       THEN /\ scResult' = <<Outcome(FALSE, TRUE, <<>>, FALSE, FALSE)>>
            /\ scPc' = "returned"
       ELSE /\ scPc' = "loop"
            /\ UNCHANGED scResult
    /\ UNCHANGED <<scFiles, scWalkErr, scNext, scUnit, scSem, scWg, scMu,
                   scFindings>>

\* wg.Add(1) of the next iteration, or the end of the loop.
ScanAdd ==
    /\ scPc = "loop"
    /\ IF scNext < NumFiles
       THEN /\ scWg' = scWg + 1
            /\ scPc' = "acquire"
       ELSE /\ scPc' = "wait"
            /\ UNCHANGED scWg
    /\ UNCHANGED <<scFiles, scWalkErr, scNext, scUnit, scSem, scMu,
                   scFindings, scResult>>

\* A channel that always takes another value.
SemAlwaysHasRoom == TRUE

\* sem = make(chan struct{}, maxConcurrency): a send goes through while
\* fewer than maxConcurrency values are in the channel.
SemHasRoom == scSem < maxConcurrency

\* sem <- struct{}{} and the go statement: one more goroutine, about to
\* scan the file of this iteration.
ScanAcquire ==
    /\ scPc = "acquire"
    /\ SemHasRoom
    /\ scSem' = scSem + 1
    /\ scUnit' = [scUnit EXCEPT !["scan", scFiles[scNext + 1]] = @ + 1]
    /\ scNext' = scNext + 1
    /\ scPc' = "loop"
    /\ UNCHANGED <<scFiles, scWalkErr, scWg, scMu, scFindings, scResult>>

\* wg.Wait(), result.Findings = findings, result.Passed, return.
ScanWait ==
    /\ scPc = "wait"
    /\ scWg = 0
    /\ scResult' = <<Outcome(FALSE, Len(scFindings) = 0, scFindings, FALSE, FALSE)>>
    /\ scPc' = "returned"
    /\ UNCHANGED <<scFiles, scWalkErr, scNext, scUnit, scSem, scWg, scMu,
                   scFindings>>

\* A goroutine whose file yields ff goes from one position to the next.
UnitStep(ff, from, to) ==
    /\ scUnit[from, ff] > 0
    /\ scUnit' = [scUnit EXCEPT ![from, ff] = @ - 1, ![to, ff] = @ + 1]

\* ff := s.scanFile(path, projectDir); if len(ff) > 0
FileScan(ff) ==
    /\ UnitStep(ff, "scan", IF Len(ff) > 0 THEN "lock" ELSE "release")
    /\ UNCHANGED <<scFiles, scWalkErr, scPc, scNext, scSem, scWg, scMu,
                   scFindings, scResult>>

\* mu.Lock()
FileLock(ff) ==
    /\ scMu = 0
    /\ scMu' = 1
    /\ UnitStep(ff, "lock", "append")
    /\ UNCHANGED <<scFiles, scWalkErr, scPc, scNext, scSem, scWg,
                   scFindings, scResult>>

\* findings = append(findings, ff...)
FileAppend(ff) ==
    /\ UnitStep(ff, "append", "unlock")
    /\ scFindings' = scFindings \o ff
    /\ UNCHANGED <<scFiles, scWalkErr, scPc, scNext, scSem, scWg, scMu,
                   scResult>>

\* mu.Unlock()
FileUnlock(ff) ==
    /\ UnitStep(ff, "unlock", "release")
    /\ scMu' = 0
    /\ UNCHANGED <<scFiles, scWalkErr, scPc, scNext, scSem, scWg,
                   scFindings, scResult>>

\* The deferred <-sem, which runs before the deferred wg.Done().
FileRelease(ff) ==
    /\ UnitStep(ff, "release", "done")
    /\ scSem' = scSem - 1
    /\ UNCHANGED <<scFiles, scWalkErr, scPc, scNext, scWg, scMu,
                   scFindings, scResult>>

\* The deferred wg.Done().
FileDone(ff) ==
    /\ UnitStep(ff, "done", "finished")
    /\ scWg' = scWg - 1
    /\ UNCHANGED <<scFiles, scWalkErr, scPc, scNext, scSem, scMu,
                   scFindings, scResult>>

NextCodeScan ==
    /\ \/ ScanWalk
       \/ ScanAdd
       \/ ScanAcquire
       \/ ScanWait
       \/ \E ff \in FileResults(scFiles) :
             \/ FileScan(ff)
             \/ FileLock(ff)
             \/ FileAppend(ff)
             \/ FileUnlock(ff)
             \/ FileRelease(ff)
             \/ FileDone(ff)
    /\ UNCHANGED <<runVars, parseVars, valVars, dedupVars, cliVars>>

\* ------------------------------------------------------------------------
\* cli: the scan command, and the Report it prints (preflight/report.go)
\* ------------------------------------------------------------------------
\* parseSeverityFilter: the minimum severity of an option text, or an error.
parseSeverityFilter(str) ==
    IF str \in {"all", "info"} THEN [sev |-> SeverityInfo, err |-> FALSE]
    ELSE IF str \in {"warn", "warning"} THEN [sev |-> SeverityWarning, err |-> FALSE]
    ELSE IF str \in {"critical", "error"} THEN [sev |-> SeverityCritical, err |-> FALSE]
    ELSE [sev |-> 0, err |-> TRUE]

\* The findings of a list, in order, whose severity is one of sevs.
OfSeverity(q, sevs) == SelectSeq(q, LAMBDA f : f.Severity \in sevs)

\* NewReport: the findings below minSeverity are skipped, the others are
\* appended and counted, Critical and Error in one counter.
NewReport(sr, minSeverity) ==
    LET kept == SelectSeq(sr.Findings, LAMBDA f : ~(f.Severity < minSeverity))
    IN  [ScanResult |-> sr,
         MinSeverity |-> minSeverity,
         CriticalCount |-> Len(OfSeverity(kept, {SeverityCritical, SeverityError})),
         WarningCount |-> Len(OfSeverity(kept, {SeverityWarning})),
         InfoCount |-> Len(OfSeverity(kept, {SeverityInfo})),
         Findings |-> kept]

\* HasCritical looking at the findings the report kept.
HasCriticalAmongShown(r) ==
    \E i \in 1..Len(r.Findings) :
        r.Findings[i].Severity \in {SeverityCritical, SeverityError}

\* Report.HasCritical: over the findings of the scan result, unfiltered.
HasCritical(r) ==
    \E i \in 1..Len(r.ScanResult.Findings) :
        r.ScanResult.Findings[i].Severity \in {SeverityCritical, SeverityError}

\* Report.RenderTerminal, as the parts of the text that vary: the findings
\* under the CRITICAL, WARNING and INFO headings, the three counts of the
\* summary bar and the RESULT line.
RenderTerminal(r) ==
    [Findings |-> OfSeverity(r.Findings, {SeverityCritical, SeverityError})
                    \o OfSeverity(r.Findings, {SeverityWarning})
                    \o OfSeverity(r.Findings, {SeverityInfo}),
     Critical |-> r.CriticalCount,
     Warnings |-> r.WarningCount,
     Info |-> r.InfoCount,
     Result |-> IF r.CriticalCount > 0 THEN "FAIL" ELSE "PASS"]

\* json.MarshalIndent(report.ToJSON()): the findings and the counts; it has
\* no RESULT line.
ToJSON(r) ==
    [Findings |-> r.Findings,
     Critical |-> r.CriticalCount,
     Warnings |-> r.WarningCount,
     Info |-> r.InfoCount,
     Result |-> "none"]

\* The scan results runner.Run returns: deduplicated and sorted.
ScanResults ==
    {[Findings |-> SortFindings(deduplicateFindings(q))] :
        q \in UNION {[1..n -> {fDup1, fCrit, fErr, fInfo}] : n \in 0..MaxFindings}}

\* The command lines: the formats and severities of the flags' help and of
\* TestParseSeverityFilter and one other of each, with and without --output.
ScanOptions ==
    [format : {"terminal", "json", "xml"},
     severity : {"all", "info", "warn", "warning", "critical", "error", "DEBUG"},
     output : {"", "report.json"}]

ScanStart(proj, o, sr) ==
    /\ project = proj
    /\ opts = o
    /\ scanResult = sr
    /\ report = <<>>
    /\ outputData = <<>>
    /\ returned = "pending"

\* runScan, from the checks of the path to the returned error; os.WriteFile
\* succeeds or fails.
RunScan ==
    /\ returned = "pending"
    /\ \E written \in BOOLEAN :
          LET min == parseSeverityFilter(opts.severity)
              r == NewReport(scanResult, min.sev)
          IN  IF project = "missing"
              THEN /\ returned' = "cannot access project path"
                   /\ UNCHANGED <<report, outputData>>
              ELSE IF project # "dir"
              THEN /\ returned' = "project path is not a directory"
                   /\ UNCHANGED <<report, outputData>>
              ELSE IF min.err
              THEN /\ returned' = "unknown severity filter"
                   /\ UNCHANGED <<report, outputData>>
              ELSE IF opts.format \notin {"json", "terminal"}
              THEN /\ returned' = "unknown format"
                   /\ report' = <<r>>
                   /\ UNCHANGED outputData
              ELSE IF opts.output # "" /\ ~written
              THEN /\ returned' = "failed to write output file"
                   /\ report' = <<r>>
                   /\ UNCHANGED outputData
              ELSE /\ report' = <<r>>
                   /\ outputData' = <<IF opts.format = "json" THEN ToJSON(r)
                                       ELSE RenderTerminal(r)>>
                   /\ returned' = IF HasCritical(r)
                                  THEN "critical issues detected"
                                  ELSE "nil"
    /\ UNCHANGED <<project, opts, scanResult>>

NextCli ==
    RunScan /\ UNCHANGED <<runVars, parseVars, valVars, dedupVars, scVars>>

\* The exit status of the command: 1 when runScan returned an error.
ExitCode == IF returned = "nil" THEN 0 ELSE 1

\* ------------------------------------------------------------------------
\* deduplicateFindings called on its own
\* ------------------------------------------------------------------------
DedupStart(s) ==
    /\ dedupArg = s
    /\ dedupRet = s
    /\ dedupCalls = 0

\* The lists handed over: nil, and every slice of at most MaxFindings of
\* the findings below.
DedupArgs ==
    {NilSlice} \cup
    {SliceOf(q) : q \in UNION {[1..n -> {fDup1, fDup2, fAlias, fCrit, fErr, fInfo}] :
                                  n \in 0..MaxFindings}}

\* deduplicateFindings is called on what it returned last.
CallDeduplicateFindings ==
    /\ dedupCalls < 2
    /\ dedupRet' = deduplicateFindingsOf(dedupRet)
    /\ dedupCalls' = dedupCalls + 1
    /\ UNCHANGED dedupArg

NextDedup ==
    /\ CallDeduplicateFindings
    /\ UNCHANGED <<runVars, parseVars, valVars, cliVars, scVars>>

\* Two findings of one list have one key.
HasDuplicateKeys(q) ==
    \E i, j \in 1..Len(q) : i < j /\ FindingKey(q[i]) = FindingKey(q[j])

\* C23: deduplicateFindings called on its own return hands that list back
\* unchanged, and called on a list without duplicate keys hands that list
\* back unchanged, nil as nil.
C23_DedupIdempotent ==
    [][CallDeduplicateFindings =>
          /\ dedupCalls = 1 => dedupRet' = dedupRet
          /\ (dedupCalls = 0 /\ ~HasDuplicateKeys(dedupArg.elems)) =>
                 dedupRet' = dedupArg]_vars

\* The second call was made on the two findings left of three, two of which
\* had one key by the text of their positions only.
C23_Witness ==
    /\ dedupCalls = 2
    /\ Len(dedupArg.elems) = 3
    /\ Len(dedupRet.elems) = 2
    /\ dedupArg.elems[1].Location # dedupArg.elems[3].Location
    /\ FindingKey(dedupArg.elems[1]) = FindingKey(dedupArg.elems[3])

\* ------------------------------------------------------------------------
\* The scan command: what is shown and how it exits
\* ------------------------------------------------------------------------
\* The findings of the scan result of severity Error or Critical.
ErrorsAndCriticals ==
    OfSeverity(scanResult.Findings, {SeverityCritical, SeverityError})

\* The project path names a directory and the format and severity options
\* are ones the command knows.
ValidCommand ==
    /\ project = "dir"
    /\ opts.format \in {"terminal", "json"}
    /\ ~parseSeverityFilter(opts.severity).err

\* C24: with the severity option "critical" the report holds every finding
\* of severity Error or Critical of the scan result, counts them, and holds
\* no Warning or Info finding.
C24_CriticalShowsErrors_AsClaimed ==
    (report # <<>> /\ opts.severity = "critical") =>
        /\ report[1].Findings = ErrorsAndCriticals
        /\ report[1].CriticalCount = Len(ErrorsAndCriticals)
        /\ report[1].WarningCount = 0
        /\ report[1].InfoCount = 0

\* C25: for a valid project directory, format and severity option the
\* command exits with 1 exactly when the scan result holds a finding of
\* severity Error or Critical, whichever severity filter is selected.
C25_ExitIffCritical_AsClaimed ==
    (returned # "pending" /\ ValidCommand) =>
        (ExitCode = 1 <=> Len(ErrorsAndCriticals) > 0)

\* C25, amended: the same once the report was printed or written; when the
\* file named by --output cannot be written the command exits with 1
\* whatever the findings are.
C25_ExitIffCritical ==
    /\ (returned # "pending" /\ ValidCommand /\ outputData # <<>>) =>
           (ExitCode = 1 <=> Len(ErrorsAndCriticals) > 0)
    /\ (returned # "pending" /\ ValidCommand /\ outputData = <<>>) =>
           /\ opts.output # ""
           /\ returned = "failed to write output file"
           /\ ExitCode = 1

\* The command failed on an Error finding that the filter "critical" kept
\* out of the report.
C25_Witness ==
    /\ ValidCommand
    /\ opts.severity = "critical"
    /\ returned = "critical issues detected"
    /\ outputData # <<>>
    /\ Len(scanResult.Findings) > 0
    /\ report[1].Findings = <<>>

\* C29: the terminal report prints RESULT: FAIL exactly when
\* Report.HasCritical() is true, and RESULT: PASS otherwise.
C29_VerdictMatchesExit_AsClaimed ==
    (outputData # <<>> /\ opts.format = "terminal") =>
        /\ outputData[1].Result = "FAIL" <=> HasCritical(report[1])
        /\ outputData[1].Result = "PASS" <=> ~HasCritical(report[1])
        /\ outputData[1].Result = "FAIL" <=> ExitCode = 1

\* ------------------------------------------------------------------------
\* offsetToLine
\* ------------------------------------------------------------------------
\* The index of the document and the line starts it holds.
LineStarts == buildLineOffsets(data)

\* The index is 0 first, then the offset after each newline byte, strictly
\* increasing.
IndexAsBuilt ==
    /\ LineStarts[1] = 0
    /\ {LineStarts[i] : i \in 2..Len(LineStarts)} =
           {j \in 1..Len(data) : data[j] = 10}
    /\ \A i \in 1..(Len(LineStarts) - 1) : LineStarts[i] < LineStarts[i + 1]

\* C21: for the index buildLineOffsets makes of a content and every offset
\* >= 0, offsetToLine returns the greatest 1-based line i whose start is
\* at or before the offset: line 1 on empty content, the last line for an
\* offset past the end, and never a smaller line for a larger offset.
C21_OffsetToLine ==
    /\ IndexAsBuilt
    /\ line \in 1..Len(LineStarts)
    /\ LineStarts[line] <= offset
    /\ \A i \in 1..Len(LineStarts) : LineStarts[i] <= offset => i <= line
    /\ data = <<>> => line = 1
    /\ offset > Len(data) => line = Len(LineStarts)
    /\ \A o \in 0..offset : offsetToLine(LineStarts, o) <= line

\* An offset inside the second of three lines, after an earlier lookup.
C21_Witness ==
    /\ vocab = "none"
    /\ Len(LineStarts) = 3
    /\ offset > LineStarts[2]
    /\ offset < LineStarts[3] - 1
    /\ line = 2

\* ------------------------------------------------------------------------
\* The merged findings and the list Run returns
\* ------------------------------------------------------------------------
\* The findings of the checkers' results, one whole result after another
\* in the order p.
MergedInOrder(p) ==
    LET RECURSIVE upto(_)
        upto(n) == IF n = 0 THEN <<>> ELSE upto(n - 1) \o cr[p[n]].Findings
    IN  upto(NumCheckers)

\* q holds, for every key among the findings of merged, exactly the first
\* finding of merged with that key, and nothing else.
FirstOfEveryKey(q, merged) ==
    /\ \A i \in DOMAIN merged :
          LET first == CHOOSE j \in WithKey(merged, KeyOf(merged[i])) :
                          \A l \in WithKey(merged, KeyOf(merged[i])) : j <= l
          IN  /\ Cardinality(WithKey(q, KeyOf(merged[i]))) = 1
              /\ \A j \in WithKey(q, KeyOf(merged[i])) : q[j] = merged[first]
    /\ \A j \in DOMAIN q : WithKey(merged, KeyOf(q[j])) # {}

\* C27: the list Run returns holds exactly one entry for every distinct
\* (CheckID, Location.String()) among the findings merged from all
\* checkers, the first-merged finding of that key; only later findings of
\* a key already seen are dropped, those of one single checker too.
C27_FirstMergedOfEveryKey ==
    [][/\ (mainpc = "dedup" /\ mainpc' = "sort") =>
              /\ \E p \in Permutations(Units) :
                    result.Findings = MergedInOrder(p)
              /\ FirstOfEveryKey(result'.Findings, result.Findings)
       /\ (mainpc = "sort" /\ mainpc' = "returned") =>
              /\ Len(result'.Findings) = Len(result.Findings)
              /\ Range(result'.Findings) = Range(result.Findings)]_vars

\* Run returned one finding for a key that one checker reported twice and
\* the other once, next to findings of other keys.
C27_Witness ==
    /\ Returned
    /\ NumCheckers = 2
    /\ \E a, b \in Units :
          /\ a # b
          /\ cr[a].Findings = <<fDup1, fDup2>>
          /\ cr[b].Findings = <<fDup2, fErr>>
          /\ result.Findings = <<fErr, fDup1>>

\* The checkers whose ByScanner entry carries an error.
WithErr == {i \in Units : result.ByScanner[CheckerID(i)].Err}

\* C28: in the result Run returns, every ByScanner entry whose Err is set
\* has Passed = false and was counted in TotalFailed, never in TotalPassed.
C28_ErrMeansFailed_AsClaimed ==
    Returned =>
        /\ \A i \in WithErr : ~result.ByScanner[CheckerID(i)].Passed
        /\ result.TotalFailed >= Cardinality(WithErr)
        /\ result.TotalPassed <= NumCheckers - Cardinality(WithErr)

\* ------------------------------------------------------------------------
\* Intent filters and the components they end up in
\* ------------------------------------------------------------------------
\* The number of the start token that made the current componentCtx: the
\* last component start token read, its element open or closed by now.
LastComponent ==
    LET sns == {openElements[i].sn : i \in
                   {j \in DOMAIN openElements :
                       openElements[j].tok.Local \in ComponentElements}}
               \cup {closedComponents[i].sn : i \in DOMAIN closedComponents}
    IN  IF sns = {} THEN 0 ELSE CHOOSE x \in sns : \A y \in sns : y <= x

\* The element whose end token a step reads.
Ending == openElements[Len(openElements)]
ReadsEnd == Len(openElements') = Len(openElements) - 1

\* The filter lists of the component being read.
FiltersOfCurrent == currentComponent[1].intentFilters

\* A step that leaves the current component with a filter list other than
\* the one it had: the end token of an intent-filter element that was
\* opened while the element of this very component was the innermost open
\* component, the filter appended being that element's, with its line and
\* the action and category names read between its start and end token.
AppendsItsFilter ==
    /\ ReadsEnd
    /\ Ending.tok.Local = "intent-filter"
    /\ Ending.owner # 0
    /\ Ending.owner = LastComponent
    /\ currentComponent'[1] =
          [currentComponent[1] EXCEPT
              !.intentFilters =
                  Append(@, [Actions |-> Ending.acts,
                             Categories |-> Ending.cats,
                             Line |-> Ending.line])]

\* A step that adds a record to the model: the end token of the element
\* that made the current component, the record taking that component's
\* filter list.
RecordsItsComponent(kind) ==
    /\ ReadsEnd
    /\ Ending.sn = LastComponent
    /\ KindOf(Ending.tok.Local) = kind
    /\ Len(RecordsOf(kind)') = Len(RecordsOf(kind)) + 1
    /\ SubSeq(RecordsOf(kind)', 1, Len(RecordsOf(kind))) = RecordsOf(kind)
    /\ RecordsOf(kind)'[Len(RecordsOf(kind)')].IntentFilters = FiltersOfCurrent

\* C26: every intent filter in a component's IntentFilters list was opened
\* while that same component was the open component and holds exactly the
\* action and category names read between its start and end token; a
\* filter opened while no component is open, and an action or category
\* read while no filter is open, end up in no component.
C26_FiltersBelongToTheirComponent ==
    [][/\ (currentComponent # <<>> /\ currentComponent' # <<>>
           /\ currentComponent' # currentComponent) =>
              \/ AppendsItsFilter
              \/ /\ Len(openElements') = Len(openElements) + 1
                 /\ openElements'[Len(openElements')].tok.Local \in ComponentElements
                 /\ currentComponent'[1].intentFilters = <<>>
       /\ (currentComponent = <<>> /\ currentComponent' # <<>>) =>
              currentComponent'[1].intentFilters = <<>>
       /\ \A k \in Kinds :
              RecordsOf(k)' # RecordsOf(k) => RecordsItsComponent(k)]_vars

\* Parse returned a model whose one activity has one filter with the action
\* and the category read inside it.
C26_Witness ==
    /\ vocab = "filters"
    /\ pstate = "done"
    /\ nstart = 4
    /\ Len(m.Activities) = 1
    /\ Len(m.Activities[1].IntentFilters) = 1
    /\ m.Activities[1].IntentFilters[1].Actions = <<ActionMain>>
    /\ m.Activities[1].IntentFilters[1].Categories = <<CategoryLauncher>>

\* ------------------------------------------------------------------------
\* Source positions of parsed elements
\* ------------------------------------------------------------------------
\* The component records of the model, of every kind.
ParsedComponents ==
    Range(m.Activities) \cup Range(m.Services) \cup Range(m.Receivers)
        \cup Range(m.Providers)

\* C22: every Permission, every component record and every IntentFilter
\* that Parse has put into the model is on a line >= 1.
C22_LinesAtLeastOne ==
    /\ \A p \in Range(m.Permissions) : p.Line >= 1
    /\ \A c \in ParsedComponents :
          /\ c.Line >= 1
          /\ \A f \in Range(c.IntentFilters) : f.Line >= 1

\* Parse accepted a document whose first line holds a byte other than a
\* newline, with a permission and a component carrying an intent filter.
C22_Witness ==
    /\ vocab = "lines"
    /\ pstate = "done"
    /\ Len(data) > 0
    /\ data[1] # 10
    /\ Len(m.Permissions) = 1
    /\ \E c \in ParsedComponents :
          /\ Len(c.IntentFilters) = 1
          /\ c.IntentFilters[1].Line >= c.Line
          /\ c.Line >= m.Permissions[1].Line

\* ------------------------------------------------------------------------
\* Properties of the code scanner's Run
\* ------------------------------------------------------------------------
\* The number of goroutines at one of the positions ps.
UnitsAt(ps) ==
    SumOver(ps \X FileResults(scFiles), [k \in DOMAIN scUnit |-> scUnit[k]])

\* The file-scanning units that are active: started and not yet past the
\* release of their place in sem.
ActiveUnits == UnitsAt({"scan", "lock", "append", "unlock", "release"})

\* The files whose scan yields ff.
FilesYielding(ff) == {i \in 1..NumFiles : scFiles[i] = ff}

\* C30: while the code scanner's Run executes, at most maxConcurrency (8)
\* file-scanning units are active, whatever the number of files; as long as
\* Run has not returned some step of it or of a unit can be taken; a unit
\* appends to findings only while it holds the lock, alone; and when Run has
\* returned a result, every file has a unit that finished, the findings of
\* every file are in the result, once, and nothing else is.
C30_BoundedFanOut ==
    /\ ActiveUnits <= maxConcurrency
    /\ scPc # "returned" => ENABLED NextCodeScan
    /\ UnitsAt({"append", "unlock"}) = scMu
    /\ (scPc = "returned" /\ ~scResult[1].nilcr) =>
          /\ \A ff \in FileResults(scFiles) :
                /\ scUnit["finished", ff] = Cardinality(FilesYielding(ff))
                /\ \A f \in Range(ff) :
                      Cardinality({j \in DOMAIN scFindings : scFindings[j] = f})
                          = Cardinality(FilesYielding(ff))
          /\ scResult[1].Findings = scFindings
          /\ Len(scFindings) =
                SumOver(1..NumFiles, [i \in 1..NumFiles |-> Len(scFiles[i])])

\* Run has returned the findings of a project of more files than
\* maxConcurrency, of which more than one held a match.
C30_Witness ==
    /\ scPc = "returned"
    /\ NumFiles > maxConcurrency
    /\ Len(scResult[1].Findings) > 1

\* Eight units are active and Run waits to start the ninth.
DispatchWaitsForAPlace ==
    /\ scPc = "acquire"
    /\ ActiveUnits = maxConcurrency

\* ------------------------------------------------------------------------
\* Specifications
\* ------------------------------------------------------------------------
RunIdle == RunStart(<<>>, FALSE)
ParseIdle == ParseStart("none")
ValidateIdle == ValidateStart(NewManifest)
DedupIdle == DedupStart(NilSlice)
CliIdle == ScanStart("missing", [format |-> "terminal", severity |-> "all",
                                 output |-> ""], [Findings |-> <<>>])
CodeScanIdle == CodeScanStart(<<>>, FALSE)
AuxIdle == DedupIdle /\ CliIdle /\ CodeScanIdle
MainIdle == RunIdle /\ ParseIdle /\ ValidateIdle

InitRun ==
    \E cs \in CheckerLists, cb \in BOOLEAN :
        RunStart(cs, cb) /\ ParseIdle /\ ValidateIdle /\ AuxIdle

NextRun ==
    /\ \/ Dispatch
       \/ DispatchDone
       \/ Wait
       \/ Dedup
       \/ Sort
       \/ \E i \in Units : Unit(i)
    /\ UNCHANGED <<parseVars, valVars, auxVars>>

SpecRun == InitRun /\ [][NextRun]_vars

InitScenarioD ==
    \E k \in 1..3, bad \in DocumentNotFound, a \in WithoutError,
       b \in WithoutError, cb \in BOOLEAN :
        /\ RunStart([i \in 1..3 |-> IF i = k THEN bad
                                    ELSE IF i = ((k % 3) + 1) THEN a ELSE b], cb)
        /\ ParseIdle
        /\ ValidateIdle
        /\ AuxIdle

SpecScenarioD == InitScenarioD /\ [][NextRun]_vars

\* The further checkers are registered.
InitFurther ==
    \E cs \in UNION {[1..n -> FurtherOutcomes] : n \in 0..MaxCheckers},
       cb \in BOOLEAN :
        RunStart(cs, cb) /\ ParseIdle /\ ValidateIdle /\ AuxIdle

SpecRunFurther == InitFurther /\ [][NextRun]_vars

InitParse == RunIdle /\ ParseStart("components") /\ ValidateIdle /\ AuxIdle

SpecParse == InitParse /\ [][NextParse]_vars

\* Parse is handed a document of the vocabulary voc.
InitDocument(voc) == RunIdle /\ ParseStart(voc) /\ ValidateIdle /\ AuxIdle

\* offsetToLine is handed the index of one of the contents.
InitContent(voc, contents) ==
    RunIdle /\ ValidateIdle /\ AuxIdle /\ \E c \in contents : ParseStartOn(voc, c)

SpecOffsetToLine == InitContent("none", Contents) /\ [][NextLocate]_vars

\* deduplicateFindings is handed one of the lists.
InitDedup ==
    MainIdle /\ CliIdle /\ CodeScanIdle /\ \E s \in DedupArgs : DedupStart(s)

SpecDedup == InitDedup /\ [][NextDedup]_vars

\* The scan command is run on a project with one of the command lines.
InitCli ==
    /\ MainIdle
    /\ DedupIdle
    /\ CodeScanIdle
    /\ \E proj \in {"dir", "file", "missing"}, o \in ScanOptions,
          sr \in ScanResults : ScanStart(proj, o, sr)

SpecCli == InitCli /\ [][NextCli]_vars

\* Scanner.Run is called on one of the projects.
InitCodeScan ==
    /\ MainIdle
    /\ DedupIdle
    /\ CliIdle
    /\ \E fs \in ProjectFiles, walkErr \in BOOLEAN : CodeScanStart(fs, walkErr)

SpecCodeScan == InitCodeScan /\ [][NextCodeScan]_vars

SpecParseLines == InitContent("lines", Documents) /\ [][NextParse]_vars

SpecParseFilters == InitContent("filters", {<<>>}) /\ [][NextParse]_vars

SpecParseExported == InitDocument("exported") /\ [][NextParse]_vars

SpecParseNesting == InitDocument("nesting") /\ [][NextParse]_vars

SpecScan == InitDocument("scan") /\ [][NextScan]_vars

\* A Validator is made for one of the models.
InitValidate(models) ==
    RunIdle /\ ParseIdle /\ AuxIdle /\ \E mm \in models : ValidateStart(mm)

SpecValidateSettings == InitValidate(SettingsModels) /\ [][NextValidate]_vars

SpecValidatePermissions == InitValidate(PermissionModels) /\ [][NextValidate]_vars

SpecValidateComponents == InitValidate(ComponentModels) /\ [][NextValidate]_vars

SpecValidateScenarios == InitValidate(ScenarioModels) /\ [][NextValidate]_vars

====
